---- MODULE Spec2Model ----
(***************************************************************************)
(* A model of linuxdeployqt-python: the bundling policy                    *)
(* (tools/exclude_libs.py), the recursive dependency collector             *)
(* (tools/ldd_dependency_collector.py), the GNU_STACK patcher              *)
(* (tools/patch_gnustack.py), the AppDir layout (tools/appdir_paths.py)    *)
(* the deployment pipeline (tools/qt_deployer.py) and the worker           *)
(* processes of the graphical front end (gui/components).                  *)
(*                                                                         *)
(* Strings the code inspects character by character (library names, ldd    *)
(* lines, RPATH entries) are tuples of one-character strings, so that       *)
(* startswith, "in", lower() and basename are computed as Python computes   *)
(* them.                                                                    *)
(***************************************************************************)
EXTENDS Integers, Sequences, FiniteSets, TLC

VARIABLES
  \* ---- bundling policy (exclude_libs.py)
  polPath,        \* library_path handed to should_bundle_library
  polCore,        \* bundle_all_but_core_libs
  polEverything,  \* bundle_everything
  polDecision,    \* "none" before the call, then "Bundle" or "Exclude"
  \* ---- GNU_STACK patcher (patch_gnustack.py)
  elfFile,        \* the bytes of the file on disk
  elfOrig,        \* the bytes before the first call
  elfPrev,        \* the bytes before the latest call
  elfReport,      \* what the latest call printed last
  applied,        \* number of fix_executable_stack calls so far
  elfParams,      \* how the file was built: class, byte order, magic, entries
  \* ---- the machine deploy_qt runs on
  exePath,            \* the path of the main executable
  lddGraph,           \* for each file of the machine, the libraries ldd lists for it
  hasVdso,            \* whether ldd prints a linux-vdso line
  systemQtInstalled,  \* whether /usr/lib holds a further Qt library
  sourceRpath,        \* the RPATH the ELF files of the machine carry
  patchelfOk,         \* whether patchelf is installed
  apprun,             \* the AppRun file handed over: "none" or "fhs"
  qmakeFound,         \* whether a qmake is on PATH
  qmlProject,         \* whether the project has QML sources that import QtQuick
  stripInstalled,     \* whether strip is installed
  lddFailing,         \* the files of the machine on which ldd exits with an error
  qt6Installed,       \* whether the second library is libQt6Core rather than libicuuc
  invalidInput,       \* what is wrong with the command line's files, "none" if nothing
  missingLibrary,     \* whether the executable needs a library that is not installed
  neverReturns,       \* the external tool that never returns when run, "none" if each does
  \* ---- dependency collector (ldd_dependency_collector.py)
  colRoot,        \* executable_path handed to get_libs
  colCore,        \* LddDependencyCollector.bundle_all_but_core_libs
  colEverything,  \* LddDependencyCollector.bundle_everything
  qt_detected,               \* LddDependencyCollector.qt_detected
  qt_detection_complete,     \* LddDependencyCollector.qt_detection_complete
  colOut,         \* what the latest get_libs call returned and ran
  colPc,          \* "ready" before the get_libs call, "done" after it
  \* ---- deployment (qt_deployer.py)
  pc,                              \* the stage deploy_qt has reached
  fhs_like_mode,                   \* QtDeployer.fhs_like_mode
  fhs_prefix,                      \* QtDeployer.fhs_prefix
  appdir_paths,                    \* QtDeployer.appdir_paths
  deployer_qt_detected,            \* QtDeployer.qt_detected
  deployer_qt_detection_complete,  \* QtDeployer.qt_detection_complete
  qt_to_be_bundled_info,           \* QtDeployer.qt_to_be_bundled_info
  bundle,                          \* the files under the target directory
  deploy_result,                         \* what deploy_qt returned: "none", "True", "False"
  problematic_files,               \* problematic_files of _verify_and_fix_rpaths
  removed_libraries,               \* the files _cleanup_excluded_libraries removed
  deploy_error,                    \* what made the run fail, "none" if nothing did
  stages,                          \* the stages of the run so far, in the order they ended
  run,                             \* the run of the program (SpecRedeploy) or the call on
                                   \* one deployer (SpecDeployReused) under way, from 1
  first_run,                       \* the result and the bundle the first run ended with
  \* ---- graphical front end (gui/MainWindow.py, gui/components)
  qt_deploy_process,               \* QtDeployerWidget.deploy_process
  ldd_deploy_process,              \* LddDeployerWidget.deploy_process
  ldd_deploy_button,               \* LddDeployerWidget.deploy_button.isEnabled()
  message_boxes,                   \* the modal message boxes that are open, the last on top
  deployments_started              \* the worker processes started so far

polVars == <<polPath, polCore, polEverything, polDecision>>
stackVars == <<elfFile, elfOrig, elfPrev, elfReport, applied, elfParams>>
machineVars ==
  <<exePath, lddGraph, hasVdso, systemQtInstalled, sourceRpath, patchelfOk, apprun,
    qmakeFound, qmlProject, stripInstalled, lddFailing, qt6Installed, invalidInput,
    missingLibrary, neverReturns>>
collectVars ==
  <<colRoot, colCore, colEverything, qt_detected, qt_detection_complete, colOut, colPc>>
deployVars ==
  <<pc, fhs_like_mode, fhs_prefix, appdir_paths, deployer_qt_detected,
    deployer_qt_detection_complete, qt_to_be_bundled_info, bundle, deploy_result,
    problematic_files, removed_libraries, deploy_error, stages, run, first_run>>
guiVars ==
  <<qt_deploy_process, ldd_deploy_process, ldd_deploy_button, message_boxes,
    deployments_started>>
vars == <<polVars, stackVars, machineVars, collectVars, deployVars, guiVars>>

(***************************************************************************)
(* Python string primitives over tuples of characters.                     *)
(***************************************************************************)
\* str.startswith
StartsWith(s, p) == Len(p) <= Len(s) /\ SubSeq(s, 1, Len(p)) = p

\* str.endswith
EndsWith(s, p) == Len(p) <= Len(s) /\ SubSeq(s, Len(s) - Len(p) + 1, Len(s)) = p

\* the operator "p in s" on strings
Contains(s, p) == \E i \in 0..(Len(s) - Len(p)) : SubSeq(s, i + 1, i + Len(p)) = p

UpperLower ==
  [c \in {"A","B","C","D","E","F","G","H","I","J","K","L","M","N","O","P","Q","R","S",
          "T","U","V","W","X","Y","Z"} |->
     CASE c = "A" -> "a" [] c = "B" -> "b" [] c = "C" -> "c" [] c = "D" -> "d"
       [] c = "E" -> "e" [] c = "F" -> "f" [] c = "G" -> "g" [] c = "H" -> "h"
       [] c = "I" -> "i" [] c = "J" -> "j" [] c = "K" -> "k" [] c = "L" -> "l"
       [] c = "M" -> "m" [] c = "N" -> "n" [] c = "O" -> "o" [] c = "P" -> "p"
       [] c = "Q" -> "q" [] c = "R" -> "r" [] c = "S" -> "s" [] c = "T" -> "t"
       [] c = "U" -> "u" [] c = "V" -> "v" [] c = "W" -> "w" [] c = "X" -> "x"
       [] c = "Y" -> "y" [] c = "Z" -> "z"]

\* str.lower
Lower(s) == [i \in 1..Len(s) |-> IF s[i] \in DOMAIN UpperLower THEN UpperLower[s[i]] ELSE s[i]]

\* index of the last "/" of a path, 0 when it has none
LastSlash(s) ==
  IF \E i \in 1..Len(s) : s[i] = "/"
  THEN CHOOSE i \in 1..Len(s) : s[i] = "/" /\ \A j \in (i + 1)..Len(s) : s[j] # "/"
  ELSE 0

\* os.path.basename: what follows the last "/"
os_path_basename(s) == SubSeq(s, LastSlash(s) + 1, Len(s))

\* "for pattern in list: if pattern in s: return True"
ContainsAnyOf(s, list) == \E i \in 1..Len(list) : Contains(s, list[i])

(***************************************************************************)
(* The static tables of exclude_libs.py.                                   *)
(***************************************************************************)
\* exclude_libs.py:11-69, one tuple of characters per entry
GENERATED_EXCLUDE_LIST ==
  << <<"l","d","-","l","i","n","u","x",".","s","o",".","2">>,
     <<"l","d","-","l","i","n","u","x","-","x","8","6","-","6","4",".","s","o",".","2">>,
     <<"l","i","b","a","n","l",".","s","o",".","1">>,
     <<"l","i","b","a","s","o","u","n","d",".","s","o",".","2">>,
     <<"l","i","b","B","r","o","k","e","n","L","o","c","a","l","e",".","s","o",".","1">>,
     <<"l","i","b","c","i","d","n",".","s","o",".","1">>,
     <<"l","i","b","c","o","m","_","e","r","r",".","s","o",".","2">>,
     <<"l","i","b","c",".","s","o",".","6">>,
     <<"l","i","b","d","l",".","s","o",".","2">>,
     <<"l","i","b","d","r","m",".","s","o",".","2">>,
     <<"l","i","b","E","G","L",".","s","o",".","1">>,
     <<"l","i","b","e","x","p","a","t",".","s","o",".","1">>,
     <<"l","i","b","f","o","n","t","c","o","n","f","i","g",".","s","o",".","1">>,
     <<"l","i","b","f","r","e","e","t","y","p","e",".","s","o",".","6">>,
     <<"l","i","b","f","r","i","b","i","d","i",".","s","o",".","0">>,
     <<"l","i","b","g","b","m",".","s","o",".","1">>,
     <<"l","i","b","g","c","c","_","s",".","s","o",".","1">>,
     <<"l","i","b","g","d","k","_","p","i","x","b","u","f","-","2",".","0",".","s","o",".","0">>,
     <<"l","i","b","g","i","o","-","2",".","0",".","s","o",".","0">>,
     <<"l","i","b","g","l","a","p","i",".","s","o",".","0">>,
     <<"l","i","b","G","L","d","i","s","p","a","t","c","h",".","s","o",".","0">>,
     <<"l","i","b","g","l","i","b","-","2",".","0",".","s","o",".","0">>,
     <<"l","i","b","G","L",".","s","o",".","1">>,
     <<"l","i","b","G","L","X",".","s","o",".","0">>,
     <<"l","i","b","g","o","b","j","e","c","t","-","2",".","0",".","s","o",".","0">>,
     <<"l","i","b","g","p","g","-","e","r","r","o","r",".","s","o",".","0">>,
     <<"l","i","b","h","a","r","f","b","u","z","z",".","s","o",".","0">>,
     <<"l","i","b","I","C","E",".","s","o",".","6">>,
     <<"l","i","b","j","a","c","k",".","s","o",".","0">>,
     <<"l","i","b","m",".","s","o",".","6">>,
     <<"l","i","b","m","v","e","c",".","s","o",".","1">>,
     <<"l","i","b","n","s","s","_","c","o","m","p","a","t",".","s","o",".","2">>,
     <<"l","i","b","n","s","s","_","d","b",".","s","o",".","2">>,
     <<"l","i","b","n","s","s","_","d","n","s",".","s","o",".","2">>,
     <<"l","i","b","n","s","s","_","f","i","l","e","s",".","s","o",".","2">>,
     <<"l","i","b","n","s","s","_","h","e","s","i","o","d",".","s","o",".","2">>,
     <<"l","i","b","n","s","s","_","n","i","s","p","l","u","s",".","s","o",".","2">>,
     <<"l","i","b","n","s","s","_","n","i","s",".","s","o",".","2">>,
     <<"l","i","b","p","1","1","-","k","i","t",".","s","o",".","0">>,
     <<"l","i","b","p","a","n","g","o","-","1",".","0",".","s","o",".","0">>,
     <<"l","i","b","p","a","n","g","o","c","a","i","r","o","-","1",".","0",".","s","o",".","0">>,
     <<"l","i","b","p","a","n","g","o","f","t","2","-","1",".","0",".","s","o",".","0">>,
     <<"l","i","b","p","t","h","r","e","a","d",".","s","o",".","0">>,
     <<"l","i","b","r","e","s","o","l","v",".","s","o",".","2">>,
     <<"l","i","b","r","t",".","s","o",".","1">>,
     <<"l","i","b","S","M",".","s","o",".","6">>,
     <<"l","i","b","s","t","d","c","+","+",".","s","o",".","6">>,
     <<"l","i","b","t","h","a","i",".","s","o",".","0">>,
     <<"l","i","b","t","h","r","e","a","d","_","d","b",".","s","o",".","1">>,
     <<"l","i","b","u","s","b","-","1",".","0",".","s","o",".","0">>,
     <<"l","i","b","u","t","i","l",".","s","o",".","1">>,
     <<"l","i","b","u","u","i","d",".","s","o",".","1">>,
     <<"l","i","b","X","1","1",".","s","o",".","6">>,
     <<"l","i","b","x","c","b","-","d","r","i","2",".","s","o",".","0">>,
     <<"l","i","b","x","c","b","-","d","r","i","3",".","s","o",".","0">>,
     <<"l","i","b","x","c","b",".","s","o",".","1">>,
     <<"l","i","b","z",".","s","o",".","1">> >>

\* exclude_libs.py:73-114
NEVER_EXCLUDE_LIST ==
  << <<"l","i","b","Q","t","5","C","o","n","c","u","r","r","e","n","t",".","s","o">>,
     <<"l","i","b","Q","t","5","Q","u","i","c","k","C","o","n","t","r","o","l","s","2",".","s","o">>,
     <<"l","i","b","Q","t","5","S","v","g",".","s","o">>,
     <<"l","i","b","Q","t","5","W","i","d","g","e","t","s",".","s","o">>,
     <<"l","i","b","Q","t","5","G","u","i",".","s","o">>,
     <<"l","i","b","Q","t","5","C","o","r","e",".","s","o">>,
     <<"l","i","b","Q","t","5","N","e","t","w","o","r","k",".","s","o">>,
     <<"l","i","b","Q","t","5","P","r","i","n","t","S","u","p","p","o","r","t",".","s","o">>,
     <<"l","i","b","Q","t","5","S","q","l",".","s","o">>,
     <<"l","i","b","Q","t","5","T","e","s","t",".","s","o">>,
     <<"l","i","b","Q","t","5","X","c","b","Q","p","a",".","s","o">>,
     <<"l","i","b","Q","t","5","D","B","u","s",".","s","o">>,
     <<"l","i","b","Q","t","5","X","c","b","Q","p","a",".","s","o",".","5">>,
     <<"l","i","b","Q","t","5","D","B","u","s",".","s","o",".","5">>,
     <<"l","i","b","Q","t","6","X","c","b","Q","p","a",".","s","o">>,
     <<"l","i","b","Q","t","6","D","B","u","s",".","s","o">>,
     <<"l","i","b","Q","t","6","X","c","b","Q","p","a",".","s","o",".","6">>,
     <<"l","i","b","Q","t","6","D","B","u","s",".","s","o",".","6">>,
     <<"l","i","b","Q","t","5","Q","u","i","c","k","C","o","n","t","r","o","l","s","2",".","s","o">>,
     <<"l","i","b","Q","t","5","Q","u","i","c","k","T","e","m","p","l","a","t","e","s","2",".","s","o">>,
     <<"l","i","b","Q","t","5","Q","u","i","c","k","C","o","n","t","r","o","l","s","2",".","s","o",".","5">>,
     <<"l","i","b","Q","t","5","Q","u","i","c","k","T","e","m","p","l","a","t","e","s","2",".","s","o",".","5">>,
     <<"l","i","b","Q","t","6","Q","u","i","c","k","C","o","n","t","r","o","l","s","2",".","s","o">>,
     <<"l","i","b","Q","t","6","Q","u","i","c","k","T","e","m","p","l","a","t","e","s","2",".","s","o">>,
     <<"l","i","b","Q","t","6","Q","u","i","c","k","C","o","n","t","r","o","l","s","2",".","s","o",".","6">>,
     <<"l","i","b","Q","t","6","Q","u","i","c","k","T","e","m","p","l","a","t","e","s","2",".","s","o",".","6">>,
     <<"l","i","b","x","c","b","-","r","e","n","d","e","r","-","u","t","i","l",".","s","o">>,
     <<"l","i","b","x","c","b","-","i","m","a","g","e",".","s","o">>,
     <<"l","i","b","x","c","b","-","i","c","c","c","m",".","s","o">>,
     <<"l","i","b","x","c","b","-","s","h","m",".","s","o">>,
     <<"l","i","b","x","c","b","-","k","e","y","s","y","m","s",".","s","o">>,
     <<"l","i","b","x","c","b","-","r","a","n","d","r",".","s","o">>,
     <<"l","i","b","x","c","b","-","r","e","n","d","e","r",".","s","o">>,
     <<"l","i","b","x","c","b","-","s","h","a","p","e",".","s","o">>,
     <<"l","i","b","x","c","b","-","s","y","n","c",".","s","o">>,
     <<"l","i","b","x","c","b","-","x","f","i","x","e","s",".","s","o">>,
     <<"l","i","b","x","c","b","-","x","k","b",".","s","o">> >>

\* exclude_libs.py:125-133 and 178-186 (the two lists are identical)
webengine_required_libs ==
  << <<"l","i","b","s","o","f","t","o","k","n","3",".","s","o">>,
     <<"l","i","b","f","r","e","e","b","l","3",".","s","o">>,
     <<"l","i","b","n","s","s","3",".","s","o">>,
     <<"l","i","b","n","s","s","u","t","i","l","3",".","s","o">>,
     <<"l","i","b","s","m","i","m","e","3",".","s","o">>,
     <<"l","i","b","s","s","l","3",".","s","o">>,
     <<"l","i","b","s","q","l","i","t","e","3",".","s","o">> >>

\* exclude_libs.py:209-229
critical_qt_patterns ==
  << <<"l","i","b","q","t","5","x","c","b","q","p","a">>,
     <<"l","i","b","q","t","5","d","b","u","s">>,
     <<"l","i","b","q","t","6","x","c","b","q","p","a">>,
     <<"l","i","b","q","t","6","d","b","u","s">>,
     <<"l","i","b","q","t","5","q","u","i","c","k","c","o","n","t","r","o","l","s","2">>,
     <<"l","i","b","q","t","5","q","u","i","c","k","t","e","m","p","l","a","t","e","s","2">>,
     <<"l","i","b","q","t","6","q","u","i","c","k","c","o","n","t","r","o","l","s","2">>,
     <<"l","i","b","q","t","6","q","u","i","c","k","t","e","m","p","l","a","t","e","s","2">>,
     <<"l","i","b","q","t","5","w","e","b","e","n","g","i","n","e">>,
     <<"l","i","b","q","t","5","w","e","b","e","n","g","i","n","e","c","o","r","e">>,
     <<"l","i","b","q","t","5","w","e","b","e","n","g","i","n","e","w","i","d","g","e","t","s">>,
     <<"l","i","b","q","t","6","w","e","b","e","n","g","i","n","e">>,
     <<"l","i","b","q","t","6","w","e","b","e","n","g","i","n","e","c","o","r","e">>,
     <<"l","i","b","q","t","6","w","e","b","e","n","g","i","n","e","w","i","d","g","e","t","s">>,
     <<"l","i","b","q","t","5","t","e","s","t">>,
     <<"l","i","b","q","t","6","t","e","s","t">>,
     <<"l","i","b","q","t","4","t","e","s","t">> >>

\* exclude_libs.py:236-253
xcb_extension_patterns ==
  << <<"l","i","b","x","c","b","-","d","p","m","s">>,
     <<"l","i","b","x","c","b","-","i","c","c","c","m">>,
     <<"l","i","b","x","c","b","-","i","m","a","g","e">>,
     <<"l","i","b","x","c","b","-","k","e","y","s","y","m","s">>,
     <<"l","i","b","x","c","b","-","p","r","e","s","e","n","t">>,
     <<"l","i","b","x","c","b","-","r","a","n","d","r">>,
     <<"l","i","b","x","c","b","-","r","e","n","d","e","r">>,
     <<"l","i","b","x","c","b","-","r","e","n","d","e","r","-","u","t","i","l">>,
     <<"l","i","b","x","c","b","-","s","h","a","p","e">>,
     <<"l","i","b","x","c","b","-","s","h","m">>,
     <<"l","i","b","x","c","b","-","s","y","n","c">>,
     <<"l","i","b","x","c","b","-","u","t","i","l">>,
     <<"l","i","b","x","c","b","-","x","f","i","x","e","s">>,
     <<"l","i","b","x","c","b","-","x","i","n","e","r","a","m","a">>,
     <<"l","i","b","x","c","b","-","x","k","b">>,
     <<"l","i","b","x","c","b","-","x","i","n","p","u","t">> >>

\* exclude_libs.py:264-271
qt_quick_patterns ==
  << <<"l","i","b","q","t","5","q","u","i","c","k">>,
     <<"l","i","b","q","t","6","q","u","i","c","k">>,
     <<"l","i","b","q","t","5","q","m","l">>,
     <<"l","i","b","q","t","6","q","m","l">>,
     <<"l","i","b","q","t","5","d","e","c","l","a","r","a","t","i","v","e">>,
     <<"l","i","b","q","t","6","d","e","c","l","a","r","a","t","i","v","e">> >>

(***************************************************************************)
(* should_exclude_library and should_bundle_library.                       *)
(***************************************************************************)
Dot == <<".">>

\* the NSS loop: library_name.startswith(nss_lib) for some entry
IsWebengineRequired(library_name) ==
  \E i \in 1..Len(webengine_required_libs) :
    StartsWith(library_name, webengine_required_libs[i])

\* MatchesEntry without the "." after the entry: a bare prefix match
MatchesEntry_BarePrefix(library_name, entry) ==
  library_name = entry \/ StartsWith(library_name, entry)

\* name == entry or name.startswith(entry + ".")
MatchesEntry(library_name, entry) ==
  library_name = entry \/ StartsWith(library_name, entry \o Dot)

MatchesNeverExclude(library_name) ==
  \E i \in 1..Len(NEVER_EXCLUDE_LIST) : MatchesEntry(library_name, NEVER_EXCLUDE_LIST[i])

MatchesExcludeList(library_name) ==
  \E i \in 1..Len(GENERATED_EXCLUDE_LIST) :
    MatchesEntry(library_name, GENERATED_EXCLUDE_LIST[i])

should_exclude_library(library_path) ==
  LET library_name == os_path_basename(library_path) IN
    IF IsWebengineRequired(library_name) THEN FALSE
    ELSE IF library_path = <<>> THEN TRUE
    ELSE IF MatchesNeverExclude(library_name) THEN FALSE
    ELSE MatchesExcludeList(library_name)

\* DefaultModeBundles without the framework-prefix test of lines 204-206
DefaultModeBundles_NoQtPrefix(library_name) ==
  LET library_name_lower == Lower(library_name)
      has(p) == Contains(library_name_lower, p)
  IN  \/ Contains(library_name, <<"l","i","b","i","c","u">>)
      \/ ContainsAnyOf(library_name_lower, critical_qt_patterns)
      \/ ContainsAnyOf(library_name_lower, xcb_extension_patterns)
      \/ has(<<"l","i","b","q","g","s","t","t","o","o","l","s">>)
      \/ ContainsAnyOf(library_name_lower, qt_quick_patterns)
      \/ has(<<"b","o","o","s","t">>)

\* the default-mode branch of should_bundle_library (lines 196-281)
DefaultModeBundles(library_name) ==
  LET library_name_lower == Lower(library_name)
      has(p) == Contains(library_name_lower, p)
  IN  \/ Contains(library_name, <<"l","i","b","i","c","u">>)
      \/ has(<<"l","i","b","q","t">>)
      \/ ContainsAnyOf(library_name_lower, critical_qt_patterns)
      \/ ContainsAnyOf(library_name_lower, xcb_extension_patterns)
      \/ has(<<"l","i","b","q","g","s","t","t","o","o","l","s">>)
      \/ ContainsAnyOf(library_name_lower, qt_quick_patterns)
      \/ has(<<"b","o","o","s","t">>)

\* should_bundle_library with bundle_everything tested after bundle_all_but_core_libs
should_bundle_library_CoreFirst(library_path, bundle_all_but_core_libs, bundle_everything) ==
  LET library_name == os_path_basename(library_path) IN
    IF IsWebengineRequired(library_name) THEN TRUE
    ELSE IF bundle_all_but_core_libs THEN ~should_exclude_library(library_path)
    ELSE IF bundle_everything THEN TRUE
    ELSE DefaultModeBundles(library_name)

should_bundle_library(library_path, bundle_all_but_core_libs, bundle_everything) ==
  IF bundle_everything THEN TRUE
  ELSE LET library_name == os_path_basename(library_path) IN
    IF IsWebengineRequired(library_name) THEN TRUE
    ELSE IF bundle_all_but_core_libs THEN ~should_exclude_library(library_path)
    ELSE DefaultModeBundles(library_name)

(***************************************************************************)
(* patch_gnustack.py: constants, struct pack/unpack, the patcher.          *)
(* A file is a tuple of bytes (0..255); Python offsets are 0-based, so     *)
(* elf[a:b] is SubSeq(elf, a + 1, b).                                      *)
(***************************************************************************)
ELF_MAGIC_BYTES == <<127, 69, 76, 70>>
ELF_CLASS_64 == 2
ELF_DATA_LSB == 1
PT_GNU_STACK == 1685382481
PF_X == 1
PF_W == 2
PF_R == 4
PH_FLAGS_OFFSET_64 == 4
PH_FLAGS_OFFSET_32 == 24

RECURSIVE BitAnd(_, _)
\* the operator & on non-negative integers
BitAnd(a, b) ==
  IF a = 0 \/ b = 0 THEN 0
  ELSE (a % 2) * (b % 2) + 2 * BitAnd(a \div 2, b \div 2)

RECURSIVE BitOr(_, _)
\* the operator | on non-negative integers
BitOr(a, b) ==
  IF a = 0 THEN b ELSE IF b = 0 THEN a
  ELSE (IF a % 2 = 1 \/ b % 2 = 1 THEN 1 ELSE 0) + 2 * BitOr(a \div 2, b \div 2)

RWX_PERMISSIONS == BitOr(BitOr(PF_R, PF_W), PF_X)
RW_PERMISSIONS == BitOr(PF_R, PF_W)

Reverse(s) == [i \in 1..Len(s) |-> s[Len(s) + 1 - i]]

RECURSIVE BigEndianValue(_)
BigEndianValue(b) ==
  IF b = <<>> THEN 0 ELSE 256 * BigEndianValue(SubSeq(b, 1, Len(b) - 1)) + b[Len(b)]

\* struct.unpack(endian + "I"/"H"/"Q", b)[0]; the caller checks len(b)
struct_unpack(endian, b) ==
  IF endian = "<" THEN BigEndianValue(Reverse(b)) ELSE BigEndianValue(b)

\* struct.pack(endian + "I", v)
struct_pack(endian, v) ==
  LET le == <<v % 256, (v \div 256) % 256, (v \div 65536) % 256, (v \div 16777216) % 256>>
  IN  IF endian = "<" THEN le ELSE Reverse(le)

\* elf[a:b]: clipped to the file, never an error
Slice(elf, a, b) ==
  IF a >= Len(elf) \/ b <= a THEN <<>> ELSE SubSeq(elf, a + 1, IF b < Len(elf) THEN b ELSE Len(elf))

\* WriteAt on a file opened in append mode: the seek is ignored
WriteAt_Append(cur, off, word) == cur \o word

\* wf.seek(off); wf.write(word) on a file opened "r+b"
WriteAt(cur, off, word) ==
  [i \in 1..Len(cur) |-> IF i > off /\ i <= off + Len(word) THEN word[i - off] ELSE cur[i]]

\* PatchWord with the two permission constants swapped
PatchWord_SwappedConstants(endian, p_flags) ==
  IF BitAnd(p_flags, RW_PERMISSIONS) = RW_PERMISSIONS
  THEN struct_pack(endian, RWX_PERMISSIONS)
  ELSE <<>>

\* PatchWord packing the word little-endian whatever the file's byte order
PatchWord_LittleEndianOnly(endian, p_flags) ==
  IF BitAnd(p_flags, RWX_PERMISSIONS) = RWX_PERMISSIONS
  THEN struct_pack("<", RW_PERMISSIONS)
  ELSE <<>>

\* lines 93-101: the bytes written over the flags word, <<>> when nothing is written
PatchWord(endian, p_flags) ==
  IF BitAnd(p_flags, RWX_PERMISSIONS) = RWX_PERMISSIONS
  THEN struct_pack(endian, RW_PERMISSIONS)
  ELSE <<>>

\* the ELF header fields the patcher reads (lines 44-69); ok = FALSE when a
\* struct.unpack would raise on a short slice
ElfHeader(elf) ==
  LET is_64  == elf[5] = ELF_CLASS_64
      endian == IF elf[6] = ELF_DATA_LSB THEN "<" ELSE ">"
      e_phoff_offset == IF is_64 THEN 32 ELSE 28
      e_phoff_size   == IF is_64 THEN 8 ELSE 4
      e_phnum_offset == IF is_64 THEN 56 ELSE 44
      e_phentsize_offset == IF is_64 THEN 54 ELSE 42
      b_phoff == Slice(elf, e_phoff_offset, e_phoff_offset + e_phoff_size)
      b_phnum == Slice(elf, e_phnum_offset, e_phnum_offset + 2)
      b_phentsize == Slice(elf, e_phentsize_offset, e_phentsize_offset + 2)
  IN  [is_64 |-> is_64, endian |-> endian,
       ok |-> Len(b_phoff) = e_phoff_size /\ Len(b_phnum) = 2 /\ Len(b_phentsize) = 2,
       e_phoff |-> struct_unpack(endian, b_phoff),
       e_phnum |-> struct_unpack(endian, b_phnum),
       e_phentsize |-> struct_unpack(endian, b_phentsize)]

RECURSIVE ProgramHeaderLoop(_, _, _, _, _)
\* lines 73-103: elf is the snapshot read at line 39, cur the file on disk,
\* i the loop index, out the lines printed so far
ProgramHeaderLoop(elf, h, cur, i, out) ==
  IF i >= h.e_phnum
  THEN [bytes |-> cur, raised |-> FALSE,
        report |-> IF out = <<>> THEN <<"GNU_STACK segment not found.">> ELSE out]
  ELSE
    LET phoff == h.e_phoff + i * h.e_phentsize
        flags_off == phoff + (IF h.is_64 THEN PH_FLAGS_OFFSET_64 ELSE PH_FLAGS_OFFSET_32)
        b_type == Slice(elf, phoff, phoff + 4)
        b_flags == Slice(elf, flags_off, flags_off + 4)
    IN  IF Len(b_type) # 4 \/ Len(b_flags) # 4
        THEN [bytes |-> cur, raised |-> TRUE, report |-> out]
        ELSE
          LET p_type == struct_unpack(h.endian, b_type)
              p_flags == struct_unpack(h.endian, b_flags)
              word == PatchWord(h.endian, p_flags)
          IN  IF p_type # PT_GNU_STACK
              THEN ProgramHeaderLoop(elf, h, cur, i + 1, out)
              ELSE IF word # <<>>
              THEN ProgramHeaderLoop(elf, h, WriteAt(cur, flags_off, word), i + 1,
                                     Append(out, "Patched RWX -> RW-"))
              ELSE ProgramHeaderLoop(elf, h, cur, i + 1,
                                     Append(out, "Already not executable stack."))

\* GnuStackPatcher.fix_executable_stack on the bytes of a file
fix_executable_stack(elf) ==
  IF Slice(elf, 0, 4) # ELF_MAGIC_BYTES
  THEN [bytes |-> elf, raised |-> FALSE, report |-> <<"Not an ELF file!">>]
  ELSE IF Len(elf) < 6
  THEN [bytes |-> elf, raised |-> TRUE, report |-> <<>>]
  ELSE LET h == ElfHeader(elf) IN
    IF ~h.ok THEN [bytes |-> elf, raised |-> TRUE, report |-> <<>>]
    ELSE ProgramHeaderLoop(elf, h, elf, 0, <<>>)

(***************************************************************************)
(* Specification SpecPolicy: should_bundle_library applied to one input.   *)
(***************************************************************************)
SeqToSet(s) == {s[i] : i \in DOMAIN s}

Chars_usr_lib == <<"/","u","s","r","/","l","i","b","/">>

\* names outside the tables: near misses of the table entries and the
\* default-mode patterns
OtherNames ==
  { <<"l","i","b","c",".","s","o">>,
    <<"l","i","b","c",".","s","o",".","6",".","2">>,
    <<"l","i","b","c",".","s","o",".","6","2">>,
    <<"l","i","b","c","r","y","p","t",".","s","o">>,
    <<"l","i","b","c","r","y","p","t",".","s","o",".","1">>,
    <<"l","i","b","p","n","g","1","6",".","s","o",".","1","6">>,
    <<"l","i","b","i","c","u","u","c",".","s","o",".","6","6">>,
    <<"l","i","b","b","o","o","s","t","_","s","y","s","t","e","m",".","s","o">>,
    <<"l","i","b","Q","t","C","o","r","e",".","s","o",".","4">>,
    <<"l","i","b","Q","t","5","C","o","r","e",".","s","o",".","5">>,
    <<"L","I","B","Q","T","5","X",".","S","O">>,
    <<"l","i","b","x","c","b","-","u","t","i","l",".","s","o",".","1">>,
    <<"l","i","b","f","o","o",".","s","o">>,
    <<"a","p","p">> }

TableNames ==
  SeqToSet(GENERATED_EXCLUDE_LIST) \cup SeqToSet(NEVER_EXCLUDE_LIST)
    \cup SeqToSet(webengine_required_libs)

\* every table entry, bare and with a version suffix, and the other names
PolicyNames == TableNames \cup {n \o <<".","2">> : n \in TableNames} \cup OtherNames

\* the names as bare names and as absolute paths, the empty path and a
\* directory path
PolicyPaths ==
  PolicyNames \cup {Chars_usr_lib \o n : n \in PolicyNames} \cup {<<>>, Chars_usr_lib}

PolicyIdle ==
  /\ polPath = <<>> /\ polCore = FALSE /\ polEverything = FALSE /\ polDecision = "idle"

PolicyInit ==
  /\ polPath \in PolicyPaths
  /\ polCore \in BOOLEAN
  /\ polEverything \in BOOLEAN
  /\ polDecision = "none"

\* one call of should_bundle_library
Decide ==
  /\ polDecision = "none"
  /\ polDecision' = IF should_bundle_library(polPath, polCore, polEverything)
                    THEN "Bundle" ELSE "Exclude"
  /\ UNCHANGED <<polPath, polCore, polEverything>>

(***************************************************************************)
(* Specification SpecStack: fix_executable_stack applied repeatedly to one *)
(* ELF file.                                                               *)
(***************************************************************************)
MaxPh == 2       \* most program headers in a file
MaxApply == 2    \* most consecutive calls on one file

\* the flags words tried for a GNU_STACK entry: every R/W/X combination, and
\* RW and RWX with an OS-specific bit (0x00100000) set
StackFlags == 0..7 \cup {1048582, 1048583}

EntryKinds ==
  {[p_type |-> 1, p_flags |-> f] : f \in {5, 7}}   \* PT_LOAD, R-X and RWX
    \cup {[p_type |-> PT_GNU_STACK, p_flags |-> f] : f \in StackFlags}

EntrySeqs == UNION {[1..n -> EntryKinds] : n \in 0..MaxPh}

EhdrSize(is64) == IF is64 THEN 64 ELSE 52
PhdrSize(is64) == IF is64 THEN 56 ELSE 32

\* v in n bytes, in the file's byte order
FieldBytes(lsb, v, n) ==
  LET le == [i \in 1..n |-> IF i <= 4 THEN struct_pack("<", v)[i] ELSE 0]
  IN  IF lsb THEN le ELSE Reverse(le)

\* the bytes of an ELF file of the given class and byte order whose program
\* header table, right after the ELF header, holds the given entries; every
\* byte the patcher has no reason to read is 7, and four such bytes follow the
\* table
ElfImage(is64, lsb, magicOk, entries) ==
  LET eh == EhdrSize(is64)
      ph == PhdrSize(is64)
      total == eh + Len(entries) * ph + 4
      phoffAt == IF is64 THEN 32 ELSE 28
      phoffLen == IF is64 THEN 8 ELSE 4
      phentAt == IF is64 THEN 54 ELSE 42
      phnumAt == IF is64 THEN 56 ELSE 44
      flagsAt == IF is64 THEN 4 ELSE 24
      HeaderByte(p) ==
        IF p < 4 THEN (IF magicOk THEN ELF_MAGIC_BYTES[p + 1] ELSE <<77, 90, 144, 0>>[p + 1])
        ELSE IF p = 4 THEN (IF is64 THEN 2 ELSE 1)
        ELSE IF p = 5 THEN (IF lsb THEN 1 ELSE 2)
        ELSE IF p >= phoffAt /\ p < phoffAt + phoffLen
          THEN FieldBytes(lsb, eh, phoffLen)[p - phoffAt + 1]
        ELSE IF p >= phentAt /\ p < phentAt + 2 THEN FieldBytes(lsb, ph, 2)[p - phentAt + 1]
        ELSE IF p >= phnumAt /\ p < phnumAt + 2
          THEN FieldBytes(lsb, Len(entries), 2)[p - phnumAt + 1]
        ELSE 7
      EntryByte(e, q) ==
        IF q < 4 THEN FieldBytes(lsb, e.p_type, 4)[q + 1]
        ELSE IF q >= flagsAt /\ q < flagsAt + 4 THEN FieldBytes(lsb, e.p_flags, 4)[q - flagsAt + 1]
        ELSE 7
  IN  [i \in 1..total |->
         LET p == i - 1 IN
           IF p < eh THEN HeaderByte(p)
           ELSE IF p < eh + Len(entries) * ph
             THEN EntryByte(entries[((p - eh) \div ph) + 1], (p - eh) % ph)
           ELSE 7]

StackIdle ==
  /\ elfParams = [is64 |-> FALSE, lsb |-> FALSE, magicOk |-> FALSE, entries |-> <<>>]
  /\ elfFile = <<>> /\ elfOrig = <<>> /\ elfPrev = <<>> /\ elfReport = <<>>
  /\ applied = 0

\* the lengths at which a file without program headers is cut short: after
\* the magic, inside e_ident, inside the ELF header; 0 for the whole file
CutLengths == {0, 4, 5, 40}

StackInit ==
  /\ \E is64 \in BOOLEAN, lsb \in BOOLEAN, magicOk \in BOOLEAN, entries \in EntrySeqs,
        cut \in CutLengths :
       /\ magicOk \/ Len(entries) <= 1
       /\ cut # 0 => (magicOk /\ entries = <<>>)
       /\ elfParams = [is64 |-> is64, lsb |-> lsb, magicOk |-> magicOk, entries |-> entries]
       /\ elfFile = IF cut = 0 THEN ElfImage(is64, lsb, magicOk, entries)
                    ELSE SubSeq(ElfImage(is64, lsb, magicOk, entries), 1, cut)
  /\ elfOrig = elfFile
  /\ elfPrev = elfFile
  /\ elfReport = <<>>
  /\ applied = 0

\* one call of GnuStackPatcher.fix_executable_stack(filename)
FixExecutableStack ==
  /\ elfFile # <<>>
  /\ applied < MaxApply
  /\ LET r == fix_executable_stack(elfFile) IN
       /\ elfFile' = r.bytes
       /\ elfReport' = IF r.raised THEN Append(r.report, "raised") ELSE r.report
  /\ elfPrev' = elfFile
  /\ applied' = applied + 1
  /\ UNCHANGED <<elfParams, elfOrig>>

(***************************************************************************)
(* The dependency collector (tools/ldd_dependency_collector.py).           *)
(***************************************************************************)
\* the characters the regular expressions treat as \s
WhiteSpace == {" ", "\t"}

RECURSIVE LStrip(_)
LStrip(s) == IF s # <<>> /\ Head(s) \in WhiteSpace THEN LStrip(Tail(s)) ELSE s

RECURSIVE RStrip(_)
RStrip(s) ==
  IF s # <<>> /\ s[Len(s)] \in WhiteSpace THEN RStrip(SubSeq(s, 1, Len(s) - 1)) ELSE s

\* str.strip
Strip(s) == RStrip(LStrip(s))

\* result.stdout.strip().split("\n"), the output given as the sequence of
\* its lines: strip() reaches the head of the first line and the tail of
\* the last one only, and the empty output splits into one empty line
output_lines(stdout) ==
  IF stdout = <<>> THEN << <<>> >>
  ELSE [i \in 1..Len(stdout) |->
          LET a == IF i = 1 THEN LStrip(stdout[i]) ELSE stdout[i]
          IN  IF i = Len(stdout) THEN RStrip(a) ELSE a]

\* the positions at which pat occurs in s
Occurrences(s, pat) ==
  {i \in 1..(Len(s) - Len(pat) + 1) : SubSeq(s, i, i + Len(pat) - 1) = pat}

Max(S) == CHOOSE x \in S : \A y \in S : y <= x

\* re "^.+ => (.+) \(" matched at the head of the line: group 1, or <<>>
\* when the line does not match; both ".+" are greedy
ldd_pattern(line) ==
  LET opens  == Occurrences(line, <<" ","(">>)
      arrows == {k \in Occurrences(line, <<" ","=",">"," ">>) :
                   k >= 2 /\ \E j \in opens : j >= k + 5}
  IN  IF arrows = {} THEN <<>>
      ELSE SubSeq(line, Max(arrows) + 4, Max(opens) - 1)

\* the longest head of the line without white space
FirstToken(line) ==
  IF \E i \in 1..Len(line) : line[i] \in WhiteSpace
  THEN SubSeq(line, 1,
              (CHOOSE i \in 1..Len(line) :
                 line[i] \in WhiteSpace /\ \A j \in 1..(i - 1) : line[j] \notin WhiteSpace) - 1)
  ELSE line

\* re "^(\S+\.so[^\s]*)\s+\(" matched at the head of the line: group 1, or
\* <<>> when the line does not match
ldd_pattern_absolute(line) ==
  LET tok   == FirstToken(line)
      rest  == SubSeq(line, Len(tok) + 1, Len(line))
      after == LStrip(rest)
  IN  IF /\ \E i \in 2..(Len(tok) - 2) : SubSeq(tok, i, i + 2) = <<".","s","o">>
         /\ Len(after) < Len(rest)
         /\ after # <<>> /\ Head(after) = "("
      THEN tok ELSE <<>>

\* _detect_qt_version_from_line: the value of qt_detected after the line
detect_qt_version_from_line(qt, line) ==
  IF Contains(line, <<"l","i","b","Q","t","6">>) THEN 6
  ELSE IF Contains(line, <<"l","i","b","Q","t","5">>) THEN 5
  ELSE IF Contains(line, <<"l","i","b","Q","t","C","o","r","e",".","s","o",".","4">>) THEN 4
  ELSE qt

\* ---- os.path on absolute, normalised paths
\* os.path.join of two parts
os_join(a, b) ==
  IF b # <<>> /\ Head(b) = "/" THEN b
  ELSE IF a = <<>> \/ a[Len(a)] = "/" THEN a \o b
  ELSE a \o <<"/">> \o b

RECURSIVE RStripSlash(_)
RStripSlash(s) ==
  IF s # <<>> /\ s[Len(s)] = "/" THEN RStripSlash(SubSeq(s, 1, Len(s) - 1)) ELSE s

\* os.path.dirname
os_path_dirname(p) ==
  LET head == SubSeq(p, 1, LastSlash(p))
  IN  IF \E i \in 1..Len(head) : head[i] # "/" THEN RStripSlash(head) ELSE head

\* str.split(sep) for a one-character separator
RECURSIVE Split(_, _)
Split(s, sep) ==
  IF \E i \in 1..Len(s) : s[i] = sep
  THEN LET i == CHOOSE k \in 1..Len(s) : s[k] = sep /\ \A j \in 1..(k - 1) : s[j] # sep
       IN  <<SubSeq(s, 1, i - 1)>> \o Split(SubSeq(s, i + 1, Len(s)), sep)
  ELSE <<s>>

\* sep.join(parts)
RECURSIVE Join(_, _)
Join(parts, sep) ==
  IF parts = <<>> THEN <<>>
  ELSE IF Len(parts) = 1 THEN parts[1]
  ELSE parts[1] \o sep \o Join(Tail(parts), sep)

RECURSIVE NonEmpty(_)
NonEmpty(parts) ==
  IF parts = <<>> THEN <<>>
  ELSE IF Head(parts) = <<>> THEN NonEmpty(Tail(parts))
  ELSE <<Head(parts)>> \o NonEmpty(Tail(parts))

\* os.path.relpath(path, start)
os_path_relpath(path, start) ==
  LET p == NonEmpty(Split(path, "/"))
      s == NonEmpty(Split(start, "/"))
      common == Max({n \in 0..Len(p) : n <= Len(s) /\ SubSeq(p, 1, n) = SubSeq(s, 1, n)})
      parts == [k \in 1..(Len(s) - common) |-> <<".",".">>] \o SubSeq(p, common + 1, Len(p))
  IN  IF parts = <<>> THEN <<".">> ELSE Join(parts, <<"/">>)

\* ---- the machine: its files, and what ldd prints for them
\* the shared libraries installed on the machine
Libraries ==
  << <<"/","u","s","r","/","l","i","b","/","l","i","b","Q","t","5","G","u","i",".","s","o",".","5">>,
     IF qt6Installed THEN <<"/","u","s","r","/","l","i","b","/","l","i","b","Q","t","6","C","o","r","e",".","s","o",".","6">> ELSE <<"/","u","s","r","/","l","i","b","/","l","i","b","i","c","u","u","c",".","s","o",".","6","6">>,
     <<"/","u","s","r","/","l","i","b","/","l","i","b","c",".","s","o",".","6">> >>

\* the main executable first, then the shared libraries
Files == <<exePath>> \o Libraries

FileIds == 1..Len(Files)
LibIds == FileIds \ {1}
LibcId == CHOOSE i \in FileIds : os_path_basename(Files[i]) = <<"l","i","b","c",".","s","o",".","6">>
FileId(path) == CHOOSE i \in FileIds : Files[i] = path

\* a further library of the Qt installation, present when systemQtInstalled:
\* a regular file with its full version and the symlink ld.so resolves
SystemQtFile == <<"/","u","s","r","/","l","i","b","/","l","i","b","Q","t","5","X","c","b","Q","p","a",".","s","o",".","5",".","1","5",".","2">>
SystemQtLink == <<"/","u","s","r","/","l","i","b","/","l","i","b","Q","t","5","X","c","b","Q","p","a",".","s","o",".","5">>
SystemQtFiles == IF systemQtInstalled THEN {SystemQtFile, SystemQtLink} ELSE {}

\* the plugin file of the Qt installation (QT_INSTALL_PLUGINS/platforms)
QtPluginsPath == <<"/","u","s","r","/","l","i","b","/","q","t","5","/","p","l","u","g","i","n","s">>
QtPluginFile == <<"/","u","s","r","/","l","i","b","/","q","t","5","/","p","l","u","g","i","n","s","/","p","l","a","t","f","o","r","m","s","/","l","i","b","q","x","c","b",".","s","o">>

\* a QML module of the Qt installation, with its plugin
QmlModulePath == <<"/","u","s","r","/","l","i","b","/","q","t","5","/","q","m","l","/","Q","t","Q","u","i","c","k",".","2">>
QmlPluginFile == <<"/","u","s","r","/","l","i","b","/","q","t","5","/","q","m","l","/","Q","t","Q","u","i","c","k",".","2","/","l","i","b","q","t","q","u","i","c","k","2","p","l","u","g","i","n",".","s","o">>
QmlDirFile == <<"/","u","s","r","/","l","i","b","/","q","t","5","/","q","m","l","/","Q","t","Q","u","i","c","k",".","2","/","q","m","l","d","i","r">>

\* a translation file of the Qt installation
QtTranslationFile == <<"/","u","s","r","/","s","h","a","r","e","/","q","t","5","/","t","r","a","n","s","l","a","t","i","o","n","s","/","q","t","_","e","n",".","q","m">>

\* the AppRun script of the project, present when one is handed over
ApprunPath == <<"/","o","p","t","/","a","p","p","/","A","p","p","R","u","n">>

\* the desktop file and the icon named on the command line
DesktopPath == <<"/","h","o","m","e","/","u","s","e","r","/","a","p","p",".","d","e","s","k","t","o","p">>
IconPath == <<"/","h","o","m","e","/","u","s","e","r","/","a","p","p",".","p","n","g">>

\* the ELF files of the machine, and all its files
ElfFiles ==
  (SeqToSet(Files) \ (IF invalidInput = "binary missing" THEN {exePath} ELSE {}))
  \cup SystemQtFiles \cup {QtPluginFile, QmlPluginFile}
MachineFiles ==
  ElfFiles \cup {QmlDirFile, QtTranslationFile}
  \cup (IF apprun = "none" \/ invalidInput = "AppRun missing" THEN {} ELSE {ApprunPath})
  \cup (IF invalidInput = "desktop file missing" THEN {} ELSE {DesktopPath})
  \cup (IF invalidInput = "icon missing" THEN {} ELSE {IconPath})

\* the paths of the files in the bundle fs
PathsOf(fs) == {f.path : f \in fs}

FileAt(fs, path) == CHOOSE f \in fs : f.path = path

\* os.path.isdir: a directory is a path some file lies under
os_path_isdir(fs, path) ==
  /\ path # <<>>
  /\ \E q \in MachineFiles \cup PathsOf(fs) : StartsWith(q, RStripSlash(path) \o <<"/">>)

\* os.path.exists
os_path_exists(fs, path) ==
  path \in MachineFiles \/ path \in PathsOf(fs) \/ os_path_isdir(fs, path)

\* os.path.islink
os_path_islink(fs, path) ==
  \/ path \in SystemQtFiles /\ path = SystemQtLink
  \/ path \in PathsOf(fs) /\ FileAt(fs, path).kind = "symlink"

\* the libraries ldd lists for a file of the machine: the further Qt
\* library needs the third library and libc, a plugin libc
Listing(path) ==
  IF \E i \in FileIds : Files[i] = path THEN lddGraph[FileId(path)]
  ELSE IF path \in SystemQtFiles THEN {3, LibcId}
  ELSE IF path \in ElfFiles THEN {LibcId}
  ELSE {}

RECURSIVE IdsInOrder(_)
IdsInOrder(S) ==
  IF S = {} THEN <<>>
  ELSE LET m == CHOOSE x \in S : \A y \in S : x <= y IN <<m>> \o IdsInOrder(S \ {m})

\* what "ldd <path>" prints for a file whose loaded objects are deps: the
\* vDSO line when the kernel maps one, one "name => path (addr)" line per
\* object, the dynamic loader's line when libc is among them; an object
\* that needs nothing prints "statically linked"
LddStdout(deps, vdso) ==
  IF deps = {} THEN << <<"\t","s","t","a","t","i","c","a","l","l","y"," ","l","i","n","k","e","d">> >>
  ELSE (IF vdso THEN << <<"\t","l","i","n","u","x","-","v","d","s","o",".","s","o",".","1"," ","(","0","x","1",")">> >> ELSE <<>>)
       \o [k \in 1..Cardinality(deps) |->
             LET p == Files[IdsInOrder(deps)[k]]
             IN  <<"\t">> \o os_path_basename(p) \o <<" ","=",">"," ">> \o p \o <<" ","(","0","x","1",")">>]
       \o (IF LibcId \in deps THEN << <<"\t","/","l","i","b","6","4","/","l","d","-","l","i","n","u","x","-","x","8","6","-","6","4",".","s","o",".","2"," ","(","0","x","1",")">> >> ELSE <<>>)

\* the line ldd prints for a needed library that no directory holds
NotFoundLine == <<"\t","l","i","b","m","i","s","s","i","n","g",".","s","o",".","1"," ","=",">"," ","n","o","t"," ","f","o","u","n","d">>

\* what "ldd <path>" prints for the file path of the machine: the
\* executable's missing library is listed first, after the vDSO line
LddLines(path) ==
  LET out == LddStdout(Listing(path), hasVdso)
  IN  IF ~(missingLibrary /\ path = exePath) THEN out
      ELSE IF hasVdso THEN <<out[1], NotFoundLine>> \o Tail(out)
      ELSE <<NotFoundLine>> \o out

\* whether ldd exits with an error on a file of the machine
LddFails(path) == \E i \in lddFailing : Files[i] = path

\* subprocess_run(["ldd", binary_path], ...): a copy in the bundle lists
\* what its source lists; a path that is no ELF file, or a file ldd cannot
\* read, makes ldd exit with status 1 (with check=True the call raises
\* CalledProcessError, which line 250 catches to return the same empty
\* LddInfo as line 204)
subprocess_run_ldd(fs, binary_path) ==
  IF binary_path \in ElfFiles /\ ~LddFails(binary_path)
    THEN [returncode |-> 0, stdout |-> LddLines(binary_path)]
  ELSE IF /\ binary_path \in PathsOf(fs) /\ FileAt(fs, binary_path).kind = "elf"
          /\ ~LddFails(FileAt(fs, binary_path).src)
    THEN [returncode |-> 0,
          stdout |-> LddLines(FileAt(fs, binary_path).src)]
  ELSE [returncode |-> 1, stdout |-> <<>>]

\* ---- the collector's code
\* one line of the loop of _find_dependency_info: dep_path, <<>> for None
ParseDependency(fs, line) ==
  LET m == ldd_pattern(line)
  IN  IF m # <<>> THEN Strip(m)
      ELSE LET c == Strip(ldd_pattern_absolute(line))
           IN  IF c # <<>> /\ ~StartsWith(c, <<"l","i","n","u","x","-","v","d","s","o">>) /\ os_path_exists(fs, c)
               THEN c ELSE <<>>

\* "for line in output_lines": the RuntimeError raised on a "not found"
\* line is caught by the function's own "except Exception", which returns
\* the dependencies gathered so far
RECURSIVE LineLoop(_, _, _, _, _, _)
RECURSIVE LineStep(_, _, _, _, _, _, _)
LineLoop(fs, lines, i, deps, qt, complete) ==
  IF i > Len(lines) THEN [dependencies |-> deps, qt_detected |-> qt]
  ELSE LineStep(fs, lines, i, deps, detect_qt_version_from_line(qt, lines[i]), complete,
                ParseDependency(fs, lines[i]))

\* the body of the loop for line i, whose dep_path is given
LineStep(fs, lines, i, deps, q, complete, dep_path) ==
  IF dep_path # <<>>
    THEN LineLoop(fs, lines, i + 1, Append(deps, dep_path), q, complete)
  ELSE IF Contains(lines[i], <<"n","o","t"," ","f","o","u","n","d">>) /\ complete
    THEN [dependencies |-> deps, qt_detected |-> q]
  ELSE LineLoop(fs, lines, i + 1, deps, q, complete)

\* _find_dependency_info after the ldd run: the dependencies and the value
\* of qt_detected
ParseLddResult(fs, result, lines, qt, complete) ==
  IF result.returncode # 0 THEN [dependencies |-> <<>>, qt_detected |-> qt]
  ELSE IF Len(lines) < 2 THEN [dependencies |-> <<>>, qt_detected |-> qt]
  ELSE LineLoop(fs, lines, 1, <<>>, qt, complete)

\* the ldd run of _find_dependency_info
SplitLddResult(fs, result, qt, complete) ==
  ParseLddResult(fs, result, output_lines(result.stdout), qt, complete)

\* _find_dependency_info
find_dependency_info(fs, binary_path, qt, complete) ==
  SplitLddResult(fs, subprocess_run_ldd(fs, binary_path), qt, complete)

\* _collect_all_libraries([binary_path], processed); st carries what the
\* call changes besides its return value: the processed set, qt_detected
\* and the paths ldd was run on
RECURSIVE collect_all_libraries(_, _, _, _)
RECURSIVE DependencyLoop(_, _, _, _, _, _)
RECURSIVE CollectDependencies(_, _, _, _, _)
RECURSIVE AfterRecursion(_, _, _, _, _, _)
collect_all_libraries(fs, binary_path, st, complete) ==
  IF binary_path \in st.processed THEN [libraries |-> {}, st |-> st]
  ELSE CollectDependencies(fs, binary_path, st, complete,
                           find_dependency_info(fs, binary_path, st.qt_detected, complete))

\* the loop of _collect_all_libraries over the dependencies info of
\* binary_path
CollectDependencies(fs, binary_path, st, complete, info) ==
  DependencyLoop(fs, info.dependencies, 1, {},
                 [processed   |-> st.processed \cup {binary_path},
                  qt_detected |-> info.qt_detected,
                  lddRuns     |-> Append(st.lddRuns, binary_path)],
                 complete)

DependencyLoop(fs, deps, i, libraries, st, complete) ==
  IF i > Len(deps) THEN [libraries |-> libraries, st |-> st]
  ELSE IF deps[i] \notin st.processed /\ os_path_exists(fs, deps[i])
    THEN AfterRecursion(fs, deps, i, libraries, complete,
                        collect_all_libraries(fs, deps[i], st, complete))
  ELSE DependencyLoop(fs, deps, i + 1, libraries \cup {deps[i]}, st, complete)

\* the loop after the recursive call for dependency i returned sub
AfterRecursion(fs, deps, i, libraries, complete, sub) ==
  DependencyLoop(fs, deps, i + 1, libraries \cup {deps[i]} \cup sub.libraries,
                 sub.st, complete)

\* the order of Python's str comparison on the characters in use
AsciiOrder ==
  <<"\t"," ","(",")","+","-",".","/","0","1","2","3","4","5","6","7","8","9","=",">","A","B","C","D","E","F","G","H","I","J","K","L","M","N","O","P","Q","R","S","T","U","V","W","X","Y","Z","_","a","b","c","d","e","f","g","h","i","j","k","l","m","n","o","p","q","r","s","t","u","v","w","x","y","z">>

Ord(c) == CHOOSE i \in 1..Len(AsciiOrder) : AsciiOrder[i] = c

RECURSIVE StrLess(_, _)
StrLess(a, b) ==
  IF b = <<>> THEN FALSE
  ELSE IF a = <<>> THEN TRUE
  ELSE IF Head(a) = Head(b) THEN StrLess(Tail(a), Tail(b))
  ELSE Ord(Head(a)) < Ord(Head(b))

\* sorted(set(...))
RECURSIVE sorted(_)
sorted(S) ==
  IF S = {} THEN <<>>
  ELSE LET m == CHOOSE x \in S : \A y \in S \ {x} : StrLess(x, y)
       IN  <<m>> \o sorted(S \ {m})

\* get_libs after _collect_all_libraries returned c: the filtered, sorted
\* list
FilterLibraries(c, core, everything) ==
  [libs |-> sorted({l \in c.libraries : should_bundle_library(l, core, everything)}),
   all_libraries |-> c.libraries,
   qt_detected |-> c.st.qt_detected, lddRuns |-> c.st.lddRuns]

\* get_libs giving up the whole collection once ldd failed on any path
\* of the traversal
DropOnFailure(r) ==
  IF \E i \in 1..Len(r.lddRuns) : LddFails(r.lddRuns[i])
  THEN [r EXCEPT !.libs = <<>>, !.all_libraries = {}] ELSE r

CollectFrom_FailureAborts(fs, executable_path, core, everything, complete, ldd_info) ==
  IF ldd_info.dependencies = <<>>
  THEN [libs |-> <<>>, all_libraries |-> {}, qt_detected |-> ldd_info.qt_detected,
        lddRuns |-> <<executable_path>>]
  ELSE DropOnFailure(
         FilterLibraries(
           collect_all_libraries(fs, executable_path,
                                 [processed |-> {}, qt_detected |-> ldd_info.qt_detected,
                                  lddRuns |-> <<executable_path>>], complete),
           core, everything))

\* get_libs after its first _find_dependency_info call returned ldd_info
CollectFrom(fs, executable_path, core, everything, complete, ldd_info) ==
  IF ldd_info.dependencies = <<>>
  THEN [libs |-> <<>>, all_libraries |-> {}, qt_detected |-> ldd_info.qt_detected,
        lddRuns |-> <<executable_path>>]
  ELSE FilterLibraries(
         collect_all_libraries(fs, executable_path,
                               [processed |-> {}, qt_detected |-> ldd_info.qt_detected,
                                lddRuns |-> <<executable_path>>], complete),
         core, everything)

\* get_libs: the list returned, the set _collect_all_libraries returned,
\* qt_detected afterwards and the paths ldd was run on
get_libs(fs, executable_path, core, everything, qt, complete) ==
  CollectFrom(fs, executable_path, core, everything, complete,
              find_dependency_info(fs, executable_path, qt, complete))

(***************************************************************************)
(* Specification SpecCollect: one get_libs call on a machine whose files   *)
(* and ldd output are chosen freely.                                       *)
(***************************************************************************)
MachineIdle ==
  /\ qt6Installed = FALSE
  /\ exePath = <<"/","o","p","t","/","a","p","p","/","b","i","n","/","a","p","p">>
  /\ lddGraph = [i \in FileIds |-> {}]
  /\ hasVdso = FALSE
  /\ systemQtInstalled = FALSE
  /\ sourceRpath = <<>>
  /\ patchelfOk = FALSE
  /\ apprun = "none"
  /\ qmakeFound = FALSE
  /\ qmlProject = FALSE
  /\ stripInstalled = FALSE
  /\ lddFailing = {}
  /\ invalidInput = "none"
  /\ missingLibrary = FALSE
  /\ neverReturns = "none"

CollectIdle ==
  /\ colRoot = <<>>
  /\ colCore = FALSE
  /\ colEverything = FALSE
  /\ qt_detected = 0
  /\ qt_detection_complete = FALSE
  /\ colOut = [libs |-> <<>>, all_libraries |-> {}, lddRuns |-> <<>>]
  /\ colPc = "idle"

CollectInit ==
  /\ exePath = <<"/","o","p","t","/","a","p","p","/","b","i","n","/","a","p","p">>
  /\ qt6Installed \in BOOLEAN
  /\ lddGraph \in [FileIds -> SUBSET LibIds]
  /\ \A i \in FileIds : i \notin lddGraph[i]
  /\ hasVdso \in BOOLEAN
  /\ systemQtInstalled = FALSE
  /\ sourceRpath = <<>>
  /\ patchelfOk = FALSE
  /\ apprun = "none"
  /\ qmakeFound = FALSE
  /\ qmlProject = FALSE
  /\ stripInstalled = FALSE
  /\ invalidInput = "none"
  /\ lddFailing \in {{}} \cup {{i} : i \in FileIds}
  /\ colRoot \in SeqToSet(Files)
  /\ colCore \in BOOLEAN
  /\ colEverything \in BOOLEAN
  \* a machine with libQt6Core, and one where ldd fails on a file, are
  \* tried for the executable as root, with a vDSO line, bundling everything
  /\ (qt6Installed \/ lddFailing # {}) =>
       /\ ~(qt6Installed /\ lddFailing # {})
       /\ hasVdso /\ colRoot = exePath /\ colEverything /\ ~colCore
  \* an executable that needs a missing library besides installed ones
  \* is tried as root, with a vDSO line, bundling everything
  /\ missingLibrary \in BOOLEAN
  /\ missingLibrary =>
       /\ lddGraph[1] # {} /\ ~qt6Installed /\ lddFailing = {}
       /\ hasVdso /\ colRoot = exePath /\ colEverything /\ ~colCore
  /\ neverReturns = "none"
  /\ qt_detected = 0
  /\ qt_detection_complete = FALSE
  /\ colOut = [libs |-> <<>>, all_libraries |-> {}, lddRuns |-> <<>>]
  /\ colPc = "ready"

\* what a get_libs call that returned r leaves in the collector
Returned(r) ==
  /\ colOut' = [libs |-> r.libs, all_libraries |-> r.all_libraries,
                lddRuns |-> r.lddRuns]
  /\ qt_detected' = r.qt_detected

\* one call of LddDependencyCollector.get_libs(colRoot)
GetLibs ==
  /\ colPc = "ready"
  /\ Returned(get_libs(bundle, colRoot, colCore, colEverything,
                       qt_detected, qt_detection_complete))
  /\ colPc' = "done"
  /\ UNCHANGED <<colRoot, colCore, colEverything, qt_detection_complete>>

(***************************************************************************)
(* The AppDir layout (tools/appdir_paths.py).                              *)
(***************************************************************************)
\* str.replace(old, new)
RECURSIVE Replace(_, _, _)
Replace(s, old, new) ==
  IF Len(s) < Len(old) THEN s
  ELSE IF StartsWith(s, old) THEN new \o Replace(SubSeq(s, Len(old) + 1, Len(s)), old, new)
  ELSE <<Head(s)>> \o Replace(Tail(s), old, new)

\* AppDirPaths.__init__
AppDirPaths(appdir_path, fhs, prefix) ==
  LET usr  == os_join(appdir_path, <<"u","s","r">>)
      base == IF fhs THEN usr ELSE appdir_path
  IN  [appdir_path      |-> appdir_path,
       fhs_like_mode    |-> fhs,
       fhs_prefix       |-> prefix,
       APPRUN           |-> os_join(appdir_path, <<"A","p","p","R","u","n">>),
       BIN_DIR          |-> IF fhs THEN os_join(usr, <<"b","i","n">>) ELSE appdir_path,
       LIB_DIR          |-> os_join(base, <<"l","i","b">>),
       PLUGINS_DIR      |-> os_join(base, <<"p","l","u","g","i","n","s">>),
       QML_DIR          |-> os_join(base, <<"q","m","l">>),
       TRANSLATIONS_DIR |-> os_join(base, <<"t","r","a","n","s","l","a","t","i","o","n","s">>),
       SHARE_DIR        |-> os_join(base, <<"s","h","a","r","e">>),
       DOC_DIR          |-> IF fhs THEN os_join(os_join(usr, <<"s","h","a","r","e">>), <<"d","o","c">>)
                            ELSE os_join(appdir_path, <<"d","o","c">>),
       LIBEXEC_DIR      |-> os_join(base, <<"l","i","b","e","x","e","c">>),
       RESOURCES_DIR    |-> os_join(base, <<"r","e","s","o","u","r","c","e","s">>)]

\* the layout before deploy_qt has built it (appdir_paths is None)
NoPaths == AppDirPaths(<<>>, FALSE, <<>>)

\* AppDirPaths.bundle_library_directory
bundle_library_directory(paths) ==
  IF paths.fhs_like_mode
  THEN os_join(Replace(paths.fhs_prefix, paths.appdir_path \o <<"/">>, <<>>), <<"l","i","b">>)
  ELSE <<"l","i","b">>

(***************************************************************************)
(* The deployment pipeline (tools/qt_deployer.py).  The options are at the *)
(* values the command line gives them by default: always_overwrite_enabled *)
(* False, run_strip_enabled True, no explicit Qt path; the target          *)
(* directory is new when the first run begins.                             *)
(***************************************************************************)
\* target_dir
TargetDir == <<"/","A","p","p","D","i","r">>

\* the contents of the AppRun file handed to deploy_qt, by kind
ApprunContent ==
  [k \in {"none", "fhs"} |->
     IF k = "fhs" THEN <<"e","x","e","c"," ","$","H","E","R","E","/","u","s","r","/","b","i","n","/","a","p","p">> ELSE <<>>]

\* a file of the bundle: an ELF file copied from src with the RPATH it
\* carries, a symlink to src, a script or a data file; steps lists what
\* was done to the file since it was written
NewFile(path, kind, src, rpath, by) ==
  [path |-> path, kind |-> kind, src |-> src, rpath |-> rpath, by |-> by,
   stack_fixed |-> FALSE, steps |-> <<"copied">>]

\* one more step done to the file at path
Did(fs, path, step) ==
  {IF f.path = path THEN [f EXCEPT !.steps = Append(@, step)] ELSE f : f \in fs}

\* shutil_copy2 of an ELF file of the machine
CopyElf(fs, src, dest, by) ==
  {f \in fs : f.path # dest} \cup {NewFile(dest, "elf", src, sourceRpath, by)}

\* os_chmod(path, 0o755)
os_chmod(fs, path) == Did(fs, path, "chmod")

\* _run_strip when strip is installed: the bundle afterwards (a strip that
\* exits with an error is caught and only logged)
run_strip(fs, binary_path) ==
  {IF f.path = binary_path /\ f.kind = "elf"
   THEN [f EXCEPT !.steps = Append(@, "stripped")] ELSE f : f \in fs}

\* _run_strip when strip is not installed: subprocess_run raises
\* FileNotFoundError, which _run_strip does not catch
run_strip_raises == ~stripInstalled

\* _determine_fhs_mode: fhs_like_mode and fhs_prefix afterwards
determine_fhs_mode(fs, app_binary_path, prefix) ==
  LET potential_fhs_prefix == os_path_dirname(os_path_dirname(app_binary_path))
      bin_dir == os_join(potential_fhs_prefix, <<"b","i","n">>)
  IN  IF os_path_isdir(fs, bin_dir) /\ StartsWith(app_binary_path, bin_dir)
      THEN [fhs_like_mode |-> TRUE, fhs_prefix |-> potential_fhs_prefix]
      ELSE [fhs_like_mode |-> FALSE, fhs_prefix |-> prefix]

\* deploy_qt, lines 135-147: whether the AppRun file asks for usr/
force_fhs_mode(content) ==
  content # <<>> /\ (Contains(content, <<"/","u","s","r","/","b","i","n","/">>) \/ Contains(content, <<"$","H","E","R","E","/","u","s","r","/">>))

\* QtDeployer._detect_qt_version: qt_detected afterwards
RECURSIVE detect_qt_version(_, _, _)
detect_qt_version(dependencies, i, qt) ==
  IF i > Len(dependencies) THEN qt
  ELSE LET dep_lower == Lower(dependencies[i])
       IN  IF Contains(dep_lower, <<"l","i","b","q","t","6">>) THEN 6
           ELSE IF Contains(dep_lower, <<"l","i","b","q","t","5">>) THEN 5
           ELSE IF Contains(dep_lower, <<"l","i","b","q","t","c","o","r","e",".","s","o",".","4">>) THEN 4
           ELSE detect_qt_version(dependencies, i + 1, qt)

\* what "qmake -query" reports, when a qmake is found on PATH
QmakeInfo ==
  [QT_INSTALL_LIBS         |-> <<"/","u","s","r","/","l","i","b">>,
   QT_INSTALL_PLUGINS      |-> QtPluginsPath,
   QT_INSTALL_QML          |-> <<"/","u","s","r","/","l","i","b","/","q","t","5","/","q","m","l">>,
   QT_INSTALL_TRANSLATIONS |-> <<"/","u","s","r","/","s","h","a","r","e","/","q","t","5","/","t","r","a","n","s","l","a","t","i","o","n","s">>]

\* the empty dictionary qt_to_be_bundled_info starts with
NoQtInfo ==
  [QT_INSTALL_LIBS |-> <<>>, QT_INSTALL_PLUGINS |-> <<>>, QT_INSTALL_QML |-> <<>>,
   QT_INSTALL_TRANSLATIONS |-> <<>>]

\* _create_library_info: <<>> for None, else a one-element sequence
create_library_info(fs, library_path, target_dir) ==
  IF library_path = <<>> \/ ~os_path_exists(fs, library_path) THEN <<>>
  ELSE << [library_name |-> os_path_basename(library_path),
           binary_name |-> os_path_basename(library_path),
           source_file_path |-> library_path,
           library_destination_directory |->
             IF Contains(library_path, target_dir)
             THEN os_path_relpath(os_path_dirname(library_path), target_dir)
             ELSE <<"l","i","b","/">>] >>

\* the critical_qt_libs lists of _find_missing_qt_platform_libraries
critical_qt_libs(qt) ==
  IF qt = 5
    THEN << <<"l","i","b","Q","t","5","X","c","b","Q","p","a",".","s","o",".","5">>, <<"l","i","b","Q","t","5","D","B","u","s",".","s","o",".","5">>, <<"l","i","b","Q","t","5","X","c","b","Q","p","a",".","s","o">>,
            <<"l","i","b","Q","t","5","D","B","u","s",".","s","o">>, <<"l","i","b","Q","t","5","Q","u","i","c","k","C","o","n","t","r","o","l","s","2",".","s","o",".","5">>,
            <<"l","i","b","Q","t","5","Q","u","i","c","k","T","e","m","p","l","a","t","e","s","2",".","s","o",".","5">>, <<"l","i","b","Q","t","5","Q","u","i","c","k","C","o","n","t","r","o","l","s","2",".","s","o">>,
            <<"l","i","b","Q","t","5","Q","u","i","c","k","T","e","m","p","l","a","t","e","s","2",".","s","o">> >>
  ELSE IF qt = 6
    THEN << <<"l","i","b","Q","t","6","X","c","b","Q","p","a",".","s","o",".","6">>, <<"l","i","b","Q","t","6","D","B","u","s",".","s","o",".","6">>, <<"l","i","b","Q","t","6","X","c","b","Q","p","a",".","s","o">>,
            <<"l","i","b","Q","t","6","D","B","u","s",".","s","o">>, <<"l","i","b","Q","t","6","Q","u","i","c","k","C","o","n","t","r","o","l","s","2",".","s","o",".","6">>,
            <<"l","i","b","Q","t","6","Q","u","i","c","k","T","e","m","p","l","a","t","e","s","2",".","s","o",".","6">>, <<"l","i","b","Q","t","6","Q","u","i","c","k","C","o","n","t","r","o","l","s","2",".","s","o">>,
            <<"l","i","b","Q","t","6","Q","u","i","c","k","T","e","m","p","l","a","t","e","s","2",".","s","o">> >>
  ELSE IF qt = 4 THEN << <<"l","i","b","Q","t","D","B","u","s",".","s","o",".","4">> >>
  ELSE <<>>

\* the loop of _find_missing_qt_platform_libraries over critical_qt_libs
RECURSIVE MissingLoop(_, _, _, _)
MissingLoop(fs, names, i, qt_libs_path) ==
  IF i > Len(names) THEN <<>>
  ELSE LET lib_path == os_join(qt_libs_path, names[i])
       IN  (IF os_path_exists(fs, lib_path)
            THEN << [library_name |-> names[i], binary_name |-> names[i],
                     source_file_path |-> lib_path,
                     library_destination_directory |-> <<"l","i","b","/">>] >>
            ELSE <<>>)
           \o MissingLoop(fs, names, i + 1, qt_libs_path)

\* _find_missing_qt_platform_libraries
find_missing_qt_platform_libraries(fs, qt, info) ==
  IF qt = 0 THEN <<>>
  ELSE IF info.QT_INSTALL_LIBS = <<>> \/ ~os_path_exists(fs, info.QT_INSTALL_LIBS) THEN <<>>
  ELSE MissingLoop(fs, critical_qt_libs(qt), 1, info.QT_INSTALL_LIBS)

\* _copy_library: the path returned (<<>> for None) and the bundle afterwards
copy_library(fs, library, target_dir) ==
  IF ~os_path_exists(fs, library.source_file_path) THEN [path |-> <<>>, fs |-> fs]
  ELSE LET dest_dir  == os_join(target_dir, library.library_destination_directory)
           dest_path == os_join(dest_dir, library.binary_name)
       IN  IF os_path_exists(fs, dest_path) THEN [path |-> dest_path, fs |-> fs]
           ELSE [path |-> dest_path,
                 fs |-> os_chmod(CopyElf(fs, library.source_file_path, dest_path,
                                         "copy_library"),
                                 dest_path)]

\* the files of the bundle fs that lie under the directory dir (os.walk)
FilesUnder(fs, dir) == {f \in fs : StartsWith(f.path, RStripSlash(dir) \o <<"/">>)}

\* the test of _cleanup_excluded_libraries on one file name
IsExcludedFile(file) ==
  /\ EndsWith(file, <<".","s","o">>) \/ Contains(file, <<".","s","o",".">>)
  /\ \E i \in 1..Len(GENERATED_EXCLUDE_LIST) :
       \/ file = GENERATED_EXCLUDE_LIST[i]
       \/ StartsWith(file, Replace(GENERATED_EXCLUDE_LIST[i], <<".","s","o">>, <<".","s","o",".">>))

\* _cleanup_excluded_libraries: the bundle afterwards
cleanup_excluded_libraries(fs, paths) ==
  IF ~os_path_isdir(fs, paths.LIB_DIR) THEN fs
  ELSE fs \ {f \in FilesUnder(fs, paths.LIB_DIR) : IsExcludedFile(os_path_basename(f.path))}

\* _deploy_all_libraries without its inner loop: the dependencies of a
\* deployed copy are not queued
EnqueueDependencies_None(fs, dep_library_paths, i, queue, copied_libraries, processed_paths) ==
  queue

\* the inner loop of _deploy_all_libraries over dep_library_paths: the
\* queue libraries_to_deploy afterwards
RECURSIVE EnqueueDependencies(_, _, _, _, _, _)
EnqueueDependencies(fs, dep_library_paths, i, queue, copied_libraries, processed_paths) ==
  IF i > Len(dep_library_paths) THEN queue
  ELSE LET dep_lib_path == dep_library_paths[i]
           dep_lib_info == create_library_info(fs, dep_lib_path, TargetDir)
           add == /\ os_path_basename(dep_lib_path) \notin SeqToSet(copied_libraries)
                  /\ dep_lib_path \notin processed_paths
                  /\ dep_lib_info # <<>>
                  /\ dep_lib_info[1] \notin SeqToSet(queue)
       IN  EnqueueDependencies(fs, dep_library_paths, i + 1,
                               IF add THEN queue \o dep_lib_info ELSE queue,
                               copied_libraries, processed_paths)

\* the while loop of _deploy_all_libraries; st holds libraries_to_deploy,
\* copied_libraries, processed_paths, deployed_full_paths, the bundle and
\* the collector's qt_detected
RECURSIVE DeployLoop(_, _, _, _)
RECURSIVE DeployOne(_, _, _, _, _, _)
RECURSIVE QueueDependencies(_, _, _)
DeployLoop(st, core, everything, complete) ==
  IF st.libraries_to_deploy = <<>> \/ st.raised THEN st
  ELSE IF Head(st.libraries_to_deploy).library_name \in SeqToSet(st.copied_libraries)
  THEN DeployLoop([st EXCEPT !.libraries_to_deploy = Tail(@)], core, everything, complete)
  ELSE DeployLoop(
         DeployOne([st EXCEPT !.libraries_to_deploy = Tail(@),
                              !.copied_libraries =
                                 Append(@, Head(st.libraries_to_deploy).library_name)],
                   copy_library(st.fs, Head(st.libraries_to_deploy), TargetDir),
                   core, everything, complete, st.processed_paths),
         core, everything, complete)

\* one pass of the loop after _copy_library returned c: _run_strip, whose
\* FileNotFoundError ends the loop, then the dependencies of the copy
DeployOne(st, c, core, everything, complete, processed_paths) ==
  IF c.path = <<>> THEN st
  ELSE IF run_strip_raises
  THEN [st EXCEPT !.deployed_full_paths = Append(@, c.path), !.fs = c.fs,
                  !.raised = TRUE]
  ELSE IF c.path \in processed_paths
  THEN [st EXCEPT !.deployed_full_paths = Append(@, c.path),
                  !.fs = run_strip(c.fs, c.path)]
  ELSE QueueDependencies(
         [st EXCEPT !.deployed_full_paths = Append(@, c.path),
                    !.fs = run_strip(c.fs, c.path),
                    !.processed_paths = @ \cup {c.path}],
         c, get_libs(c.fs, c.path, core, everything, st.qt, complete))

\* the pass after get_libs(deployed_path) returned g
QueueDependencies(st, c, g) ==
  [st EXCEPT !.libraries_to_deploy =
               EnqueueDependencies(c.fs, g.libs, 1, @, st.copied_libraries,
                                   st.processed_paths),
             !.qt = g.qt_detected]

\* the first loop of _deploy_all_libraries: the LibraryInfo of each path
RECURSIVE LibraryInfos(_, _, _)
LibraryInfos(fs, libraries_to_bundle, i) ==
  IF i > Len(libraries_to_bundle) THEN <<>>
  ELSE create_library_info(fs, libraries_to_bundle[i], TargetDir)
       \o LibraryInfos(fs, libraries_to_bundle, i + 1)

\* the loop of GnuStackPatcher.fix_executable_stack over the deployed
\* files: open() raises FileNotFoundError when a file is no longer there,
\* and _deploy_all_libraries returns False
RECURSIVE FixStacks(_, _, _, _)
FixStacks(fs, deployed, i, qt) ==
  IF i > Len(deployed)
  THEN [ok |-> TRUE, fs |-> fs, qt |-> qt, error |-> "none", patched |-> TRUE]
  ELSE IF deployed[i] \notin PathsOf(fs)
  THEN [ok |-> FALSE, fs |-> fs, qt |-> qt, error |-> "fix_executable_stack",
        patched |-> FALSE]
  ELSE FixStacks({IF f.path = deployed[i]
                  THEN [f EXCEPT !.stack_fixed = TRUE,
                                 !.steps = Append(@, "stack_patched")]
                  ELSE f : f \in fs},
                 deployed, i + 1, qt)

\* _deploy_all_libraries after the loop ended in st; removed holds the
\* paths the cleanup deleted
AfterLoop(st, paths) ==
  IF st.raised
  THEN [ok |-> FALSE, fs |-> st.fs, qt |-> st.qt, error |-> "strip", patched |-> FALSE,
        removed |-> {}]
  ELSE FixStacks(cleanup_excluded_libraries(st.fs, paths), st.deployed_full_paths, 1,
                 st.qt)
       @@ [removed |-> PathsOf(st.fs) \ PathsOf(cleanup_excluded_libraries(st.fs, paths))]

\* _deploy_all_libraries after get_libs(executable_path) returned g
DeployCollected(fs, paths, dqt, info, core, everything, complete, g) ==
  IF g.libs = <<>>
  THEN [ok |-> TRUE, fs |-> fs, qt |-> g.qt_detected, error |-> "none", patched |-> FALSE,
        removed |-> {}]
  ELSE AfterLoop(
         DeployLoop([libraries_to_deploy |->
                       LibraryInfos(fs, g.libs, 1)
                       \o find_missing_qt_platform_libraries(fs, dqt, info),
                     copied_libraries    |-> <<>>,
                     processed_paths     |-> {},
                     deployed_full_paths |-> <<>>,
                     fs                  |-> fs,
                     qt                  |-> g.qt_detected,
                     raised              |-> FALSE],
                    core, everything, complete),
         paths)

\* _deploy_all_libraries: whether it returns True, the bundle and the
\* collector's qt_detected afterwards
deploy_all_libraries(fs, executable_path, paths, dqt, info, core, everything, cqt, complete) ==
  DeployCollected(fs, paths, dqt, info, core, everything, complete,
                  get_libs(fs, executable_path, core, everything, cqt, complete))

\* the order-preserving removal of duplicates in _change_identification
RECURSIVE Unique(_)
Unique(parts) ==
  IF parts = <<>> THEN <<>>
  ELSE LET init == Unique(SubSeq(parts, 1, Len(parts) - 1))
           last == parts[Len(parts)]
       IN  IF last \in SeqToSet(init) THEN init ELSE Append(init, last)

\* _change_identification giving the library directory itself as the
\* primary entry
final_rpath_AbsoluteLibDir(binary_path, paths) ==
  Join(<< <<"$","O","R","I","G","I","N">>, paths.LIB_DIR >>, <<":">>)

\* the RPATH _change_identification computes for binary_path
final_rpath(binary_path, paths) ==
  LET rel_path == os_path_relpath(paths.LIB_DIR, os_path_dirname(binary_path))
      rpath_parts ==
        << <<"$","O","R","I","G","I","N">>, <<"$","O","R","I","G","I","N","/">> \o rel_path >>
        \o (IF Contains(binary_path, <<"p","l","u","g","i","n","s">>)
              THEN IF Contains(binary_path, <<"p","l","a","t","f","o","r","m","s">>) \/ Contains(binary_path, <<"i","m","a","g","e","f","o","r","m","a","t","s">>)
                   THEN << <<"$","O","R","I","G","I","N","/",".",".","/",".",".","/","l","i","b">>, <<"$","O","R","I","G","I","N","/",".",".","/",".",".","/",".",".","/","l","i","b">> >>
                   ELSE << <<"$","O","R","I","G","I","N","/",".",".","/",".",".","/","l","i","b">> >>
            ELSE IF Contains(binary_path, <<"q","m","l">>)
              THEN << <<"$","O","R","I","G","I","N","/",".",".","/",".",".","/","l","i","b">>, <<"$","O","R","I","G","I","N","/",".",".","/",".",".","/",".",".","/","l","i","b">>,
                      <<"$","O","R","I","G","I","N","/",".",".","/",".",".","/",".",".","/",".",".","/","l","i","b">> >>
            ELSE << <<"$","O","R","I","G","I","N","/","l","i","b">>, <<"$","O","R","I","G","I","N","/",".",".","/","l","i","b">> >>)
        \o (IF paths.fhs_like_mode
              THEN << <<"$","O","R","I","G","I","N","/",".",".","/",".",".","/","l","i","b">>, <<"$","O","R","I","G","I","N","/",".",".","/","u","s","r","/","l","i","b">> >>
            ELSE <<>>)
  IN  Join(Unique(rpath_parts), <<":">>)

\* patchelf --set-rpath rpath path
SetRpath(fs, path, rpath) ==
  {IF f.path = path /\ f.kind = "elf"
   THEN [f EXCEPT !.rpath = rpath, !.steps = Append(@, "relinked")] ELSE f : f \in fs}

\* _change_identification: the bundle afterwards; without patchelf the
\* file keeps the RPATH it was copied with
change_identification(fs, binary_path, paths) ==
  IF ~patchelfOk THEN fs
  ELSE SetRpath(fs, binary_path, final_rpath(binary_path, paths))

\* whether a string is a non-empty run of digits (\d+)
IsDigits(s) ==
  s # <<>> /\ \A i \in 1..Len(s) : s[i] \in {"0", "1", "2", "3", "4", "5", "6", "7", "8", "9"}

\* _create_library_version_aliases, the names of the aliases: for
\* (.+\.so)\.(\d+)\.(\d+)\.(\d+)$ the major alias and the base name, for
\* (.+\.so)\.(\d+)$ the base name
version_aliases(lib_name) ==
  LET parts == Split(lib_name, ".")
      n     == Len(parts)
      Base(k) == Join(SubSeq(parts, 1, k), <<".">>)
  IN  IF /\ n >= 5
         /\ IsDigits(parts[n]) /\ IsDigits(parts[n - 1]) /\ IsDigits(parts[n - 2])
         /\ parts[n - 3] = <<"s","o">>
         /\ Base(n - 4) # <<>>
      THEN << Base(n - 3) \o <<".">> \o parts[n - 2], Base(n - 3) >>
      ELSE IF /\ n >= 3
              /\ IsDigits(parts[n])
              /\ parts[n - 1] = <<"s","o">>
              /\ Base(n - 2) # <<>>
      THEN << Base(n - 1) >>
      ELSE <<>>

\* the loop of _create_library_version_aliases over the alias names
RECURSIVE CreateAliases(_, _, _, _, _)
CreateAliases(fs, aliases, i, lib_name, lib_dir) ==
  IF i > Len(aliases) THEN fs
  ELSE LET alias_path == os_join(lib_dir, aliases[i])
       IN  CreateAliases(
             IF os_path_exists(fs, alias_path) THEN fs
             ELSE fs \cup {NewFile(alias_path, "symlink", lib_name, <<>>, "alias")},
             aliases, i + 1, lib_name, lib_dir)

\* _create_library_version_aliases
create_library_version_aliases(fs, library_path, lib_dir) ==
  CreateAliases(fs, version_aliases(os_path_basename(library_path)), 1,
                os_path_basename(library_path), lib_dir)

\* the directories _deploy_system_qt_libraries searches
system_lib_paths ==
  << <<"/","u","s","r","/","l","i","b","/","x","8","6","_","6","4","-","l","i","n","u","x","-","g","n","u">>, <<"/","u","s","r","/","l","i","b">>, <<"/","l","i","b","/","x","8","6","_","6","4","-","l","i","n","u","x","-","g","n","u">>,
     <<"/","l","i","b">>, <<"/","u","s","r","/","l","i","b","6","4">>, <<"/","l","i","b","6","4">> >>

system_qt_pattern_AnySharedObject(file, qt_version) ==
  Contains(file, <<".","s","o">>)

\* the name test of _deploy_system_qt_libraries, lines 2050-2062
system_qt_pattern(file, qt_version) ==
  \/ qt_version = 5 /\ StartsWith(file, <<"l","i","b","Q","t","5">>) /\ Contains(file, <<".","s","o">>)
  \/ qt_version = 6 /\ StartsWith(file, <<"l","i","b","Q","t","6">>) /\ Contains(file, <<".","s","o">>)
  \/ /\ qt_version = 4
     /\ StartsWith(file, <<"l","i","b","Q","t">>)
     /\ ~StartsWith(file, <<"l","i","b","Q","t","5">>) /\ ~StartsWith(file, <<"l","i","b","Q","t","6">>)
     /\ Contains(file, <<".","s","o">>)

\* os.listdir(search_path) restricted to files, in sorted order
ListFiles(search_path) ==
  sorted({p \in MachineFiles : os_path_dirname(p) = search_path})

\* the loop of _deploy_system_qt_libraries over the libraries found in one
\* directory
RECURSIVE SystemQtLoop(_, _, _, _)
SystemQtLoop(fs, qt_libraries, i, paths) ==
  IF i > Len(qt_libraries) THEN fs
  ELSE LET lib_path == qt_libraries[i]
           lib_name == os_path_basename(lib_path)
           target_lib_path == os_join(paths.LIB_DIR, lib_name)
       IN  IF \/ os_path_exists(fs, target_lib_path)
              \/ os_path_islink(fs, lib_path)
              \/ EndsWith(lib_name, <<".","a">>) \/ EndsWith(lib_name, <<".","p","r","l">>)
           THEN SystemQtLoop(fs, qt_libraries, i + 1, paths)
           ELSE SystemQtLoop(
                  change_identification(
                    create_library_version_aliases(
                      CopyElf(fs, lib_path, target_lib_path, "system_qt"),
                      target_lib_path, paths.LIB_DIR),
                    target_lib_path, paths),
                  qt_libraries, i + 1, paths)

\* the Qt libraries of one directory, as lines 2042-2062 select them
RECURSIVE SelectQt(_, _, _)
SelectQt(files, i, qt_version) ==
  IF i > Len(files) THEN <<>>
  ELSE (IF system_qt_pattern(os_path_basename(files[i]), qt_version)
        THEN <<files[i]>> ELSE <<>>)
       \o SelectQt(files, i + 1, qt_version)

\* _deploy_system_qt_libraries: the bundle afterwards
RECURSIVE deploy_system_qt_libraries(_, _, _, _)
deploy_system_qt_libraries(fs, k, qt_version, paths) ==
  IF k > Len(system_lib_paths) THEN fs
  ELSE IF ~os_path_exists(fs, system_lib_paths[k])
  THEN deploy_system_qt_libraries(fs, k + 1, qt_version, paths)
  ELSE deploy_system_qt_libraries(
         SystemQtLoop(fs, SelectQt(ListFiles(system_lib_paths[k]), 1, qt_version), 1, paths),
         k + 1, qt_version, paths)

\* QtComponentAnalyzer._analyze_qt_libraries
analyze_qt_libraries(dependencies) ==
  {Split(os_path_basename(dependencies[i]), ".")[1] :
     i \in {j \in 1..Len(dependencies) :
              \/ StartsWith(os_path_basename(dependencies[j]), <<"l","i","b","Q","t","5">>)
              \/ StartsWith(os_path_basename(dependencies[j]), <<"l","i","b","Q","t","6">>)}}

\* QtComponentAnalyzer._determine_plugins_from_libraries, for the one
\* plugin the machine has: platforms/libqxcb.so is required when a Gui
\* library is among qt_libraries
determine_plugins_from_libraries(qt_libraries) ==
  IF \E lib \in qt_libraries : Contains(lib, <<"l","i","b","Q","t","5","G","u","i">>) \/ Contains(lib, <<"l","i","b","Q","t","6","G","u","i">>)
  THEN { <<"p","l","a","t","f","o","r","m","s","/","l","i","b","q","x","c","b",".","s","o">> } ELSE {}

\* the plugin files _deploy_plugins writes: shutil_copy2, os_chmod and,
\* when stripped, _run_strip
PluginFiles(found, info, paths, stripped) ==
  {[NewFile(os_join(paths.PLUGINS_DIR, plugin), "elf",
            os_join(info.QT_INSTALL_PLUGINS, plugin), sourceRpath, "plugin")
      EXCEPT !.steps = IF stripped THEN <<"copied", "chmod", "stripped">>
                       ELSE <<"copied", "chmod">>] : plugin \in found}

\* _deploy_plugins once the plugins directory is known to exist, for the
\* required plugins found in it: _run_strip raises on the first one when
\* strip is not installed
CopyPlugins(fs, found, info, paths) ==
  IF found # {} /\ run_strip_raises
  THEN [ok |-> FALSE, error |-> "strip",
        fs |-> {f \in fs : f.path \notin PathsOf(PluginFiles(found, info, paths, FALSE))}
               \cup PluginFiles(found, info, paths, FALSE)]
  ELSE [ok |-> TRUE, error |-> "none",
        fs |-> {f \in fs : f.path \notin PathsOf(PluginFiles(found, info, paths, TRUE))}
               \cup PluginFiles(found, info, paths, TRUE)]

\* _deploy_plugins: whether it returns True, what it logs when it does
\* not, and the bundle afterwards
deploy_plugins(fs, required_plugins, info, paths) ==
  IF info.QT_INSTALL_PLUGINS = <<>> \/ ~os_path_exists(fs, info.QT_INSTALL_PLUGINS)
  THEN [ok |-> FALSE, fs |-> fs, error |-> "Qt plugins directory not found"]
  ELSE CopyPlugins(fs, {q \in required_plugins :
                          os_join(info.QT_INSTALL_PLUGINS, q) \in MachineFiles},
                   info, paths)

\* deploy_qml_imports for one import: the destination directory
qml_import_dest_path(target_dir, name, path) ==
  LET import_name == Replace(name, <<".">>, <<"/">>)
      version     == SubSeq(path, Len(path) - 1, Len(path))
  IN  os_join(os_join(target_dir, <<"q","m","l">>),
              IF Len(path) >= 2 /\ StartsWith(version, <<".">>)
              THEN import_name \o version ELSE import_name)

\* _deploy_qml_import: shutil_copytree of the module directory
deploy_qml_import(fs, source_path, dest_path) ==
  IF ~os_path_exists(fs, source_path) THEN fs
  ELSE IF FilesUnder(fs, dest_path) # {} THEN fs
  ELSE fs \cup
       {NewFile(dest_path \o SubSeq(p, Len(source_path) + 1, Len(p)),
                IF p \in ElfFiles THEN "elf" ELSE "data", p,
                IF p \in ElfFiles THEN sourceRpath ELSE <<>>, "qml") :
          p \in {q \in MachineFiles : StartsWith(q, source_path \o <<"/">>)}}

\* has_absolute_paths of _verify_and_fix_rpaths for the output of
\* "patchelf --print-rpath"
has_absolute_paths(current_rpath) ==
  LET parts == Split(current_rpath, ":")
  IN  \E i \in 1..Len(parts) : ~StartsWith(parts[i], <<"$","O","R","I","G","I","N">>) /\ parts[i] # <<>>

\* the file a path of the bundle names, through a symlink in its directory
Resolve(fs, f) ==
  IF f.kind = "symlink" /\ os_join(os_path_dirname(f.path), f.src) \in PathsOf(fs)
  THEN FileAt(fs, os_join(os_path_dirname(f.path), f.src))
  ELSE f

\* elf_files of _verify_and_fix_rpaths: the shared objects and executables
\* of the bundle that begin with the ELF magic
elf_files(fs, target_dir) ==
  {f \in FilesUnder(fs, target_dir) : Resolve(fs, f).kind = "elf"}

\* problematic_files of _verify_and_fix_rpaths; "patchelf --print-rpath"
\* cannot be run when patchelf is not installed
find_problematic_files(fs, target_dir) ==
  IF ~patchelfOk THEN {}
  ELSE {f.path : f \in {e \in elf_files(fs, target_dir) :
                          \/ has_absolute_paths(Resolve(fs, e).rpath)
                          \/ Resolve(fs, e).rpath = <<>>}}

\* _apply_final_binary_fixes
apply_final_binary_fixes(fs, binary_path) ==
  IF ~os_path_exists(fs, binary_path) \/ ~patchelfOk THEN fs
  ELSE SetRpath(fs, binary_path, <<"$","O","R","I","G","I","N",":","$","O","R","I","G","I","N","/","l","i","b",":","$","O","R","I","G","I","N","/",".",".","/","l","i","b">>)

(***************************************************************************)
(* Specification SpecDeploy: one run of the command line program, which    *)
(* validates its arguments and calls QtDeployer.deploy_qt, into a new      *)
(* target directory; one action per stage.  The machine has no WebEngine   *)
(* library and no resources directory in the project.                      *)
(***************************************************************************)
\* the AppRun file handed to deploy_qt ("" when there is none)
ApprunFile == IF apprun = "none" THEN <<>> ELSE ApprunPath

\* what can be wrong with the files named on the command line
InvalidInputs ==
  {"binary missing", "binary not a file", "binary not executable",
   "desktop file missing", "icon missing", "AppRun missing"}

\* validate_arguments without the os_access(binary_path, os_X_OK) test
validate_arguments_NoAccessCheck(fs) ==
  IF ~os_path_exists(fs, exePath) THEN "exit 1"
  ELSE IF invalidInput = "binary not a file" THEN "exit 1"
  ELSE IF ~os_path_exists(fs, DesktopPath) THEN "exit 1"
  ELSE IF ~os_path_exists(fs, IconPath) THEN "exit 1"
  ELSE IF ApprunFile # <<>> /\ ~os_path_exists(fs, ApprunFile) THEN "exit 1"
  ELSE "ok"

\* validate_arguments of the command line program: sys_exit(1) on the
\* first file that is missing or no regular file or, for the binary, not
\* executable; no output path, QML directory or Qt path is given
validate_arguments(fs) ==
  IF ~os_path_exists(fs, exePath) THEN "exit 1"
  ELSE IF invalidInput = "binary not a file" THEN "exit 1"
  ELSE IF invalidInput = "binary not executable" THEN "exit 1"
  ELSE IF ~os_path_exists(fs, DesktopPath) THEN "exit 1"
  ELSE IF ~os_path_exists(fs, IconPath) THEN "exit 1"
  ELSE IF ApprunFile # <<>> /\ ~os_path_exists(fs, ApprunFile) THEN "exit 1"
  ELSE "ok"

\* the stages of a run, in the order of the pipeline
StageOrder ==
  <<"Validate", "LayoutReady", "StructureCreated", "DependenciesResolved",
    "VersionDetected", "LibrariesDeployed", "StackPatched", "RpathFixed",
    "PluginsDeployed", "ExtrasDeployed", "Verified">>

\* the deployer and the collector as their constructors leave them
NewDeployer ==
  /\ fhs_like_mode = FALSE
  /\ fhs_prefix = <<>>
  /\ appdir_paths = NoPaths
  /\ deployer_qt_detected = 0
  /\ deployer_qt_detection_complete = FALSE
  /\ qt_to_be_bundled_info = NoQtInfo
  /\ deploy_result = "none"
  /\ problematic_files = {}
  /\ removed_libraries = {}
  /\ deploy_error = "none"
  /\ stages = <<>>

DeployIdle ==
  /\ pc = "idle"
  /\ NewDeployer
  /\ bundle = {}
  /\ run = 1
  /\ first_run = [result |-> "none", bundle |-> {}]

DeployInit ==
  /\ exePath \in { <<"/","o","p","t","/","a","p","p","/","b","i","n","/","a","p","p">>, <<"/","o","p","t","/","a","p","p","/","a","p","p">> }
  /\ qt6Installed = FALSE
  /\ lddGraph \in [FileIds -> SUBSET LibIds]
  /\ lddGraph[1] \in {{2, LibcId}, {LibcId}}
  /\ lddGraph[2] \in {{3, LibcId}, {3}, {LibcId}}
  /\ lddGraph[3] = {LibcId}
  /\ lddGraph[LibcId] = {}
  /\ hasVdso \in BOOLEAN
  /\ systemQtInstalled \in BOOLEAN
  /\ sourceRpath \in { <<"$","O","R","I","G","I","N","/",".",".","/","l","i","b">>, <<"/","o","p","t","/","Q","t","/","l","i","b">> }
  /\ patchelfOk \in BOOLEAN
  /\ apprun \in {"none", "fhs"}
  /\ apprun = "fhs" => exePath = <<"/","o","p","t","/","a","p","p","/","a","p","p">>
  /\ qmakeFound \in BOOLEAN
  /\ qmlProject \in BOOLEAN
  /\ stripInstalled \in BOOLEAN
  /\ lddFailing = {}
  /\ invalidInput \in {"none"} \cup InvalidInputs
  /\ invalidInput = "AppRun missing" => apprun = "fhs"
  /\ colRoot = <<>>
  /\ colCore \in BOOLEAN
  \* a machine without strip, and a command line with an invalid file, are
  \* tried with a vDSO line, with QML sources and in default bundling mode
  /\ (~stripInstalled \/ invalidInput # "none") => (hasVdso /\ qmlProject /\ ~colCore)
  /\ invalidInput # "none" =>
       (stripInstalled /\ systemQtInstalled /\ patchelfOk /\ qmakeFound)
  \* a first library that does not need the third one is tried with a valid
  \* command line, with strip and a vDSO line, for an executable in bin/
  /\ lddGraph[2] = {LibcId} =>
       /\ lddGraph[1] = {2, LibcId} /\ invalidInput = "none" /\ stripInstalled
       /\ hasVdso /\ exePath = <<"/","o","p","t","/","a","p","p","/","b","i","n","/","a","p","p">>
  \* an executable that needs a missing library is tried on a machine with
  \* every tool, for a valid command line, in default bundling mode
  /\ missingLibrary \in BOOLEAN
  /\ missingLibrary =>
       /\ lddGraph[1] = {2, LibcId} /\ lddGraph[2] = {3, LibcId}
       /\ invalidInput = "none" /\ stripInstalled /\ patchelfOk /\ qmakeFound
       /\ hasVdso /\ qmlProject /\ ~colCore
  \* a tool that never returns is tried on a machine with every tool, for a
  \* valid command line and a QML project, in default bundling mode
  /\ neverReturns \in {"none", "ldd", "qmlimportscanner"}
  /\ neverReturns # "none" =>
       /\ lddGraph[1] = {2, LibcId} /\ lddGraph[2] = {3, LibcId} /\ ~missingLibrary
       /\ invalidInput = "none" /\ stripInstalled /\ patchelfOk /\ qmakeFound
       /\ hasVdso /\ qmlProject /\ ~colCore
  \* the command line program sets bundle_everything to False; a deployer
  \* whose collector was given set_bundle_mode(bundle_everything=True) is
  \* tried on a machine with every tool, for a valid command line
  /\ colEverything \in BOOLEAN
  /\ colEverything =>
       /\ ~colCore /\ lddGraph[1] = {2, LibcId} /\ lddGraph[2] = {3, LibcId}
       /\ ~missingLibrary /\ neverReturns = "none"
       /\ invalidInput = "none" /\ stripInstalled /\ patchelfOk /\ qmakeFound
       /\ hasVdso /\ qmlProject
  /\ qt_detected = 0
  /\ qt_detection_complete = FALSE
  /\ colOut = [libs |-> <<>>, all_libraries |-> {}, lddRuns |-> <<>>]
  /\ colPc = "idle"
  /\ pc = "validate"
  /\ NewDeployer
  /\ bundle = {}
  /\ run = 1
  /\ first_run = [result |-> "none", bundle |-> {}]

\* subprocess_run(["ldd", binary_path], ...) is given no timeout: at a
\* stage that runs ldd, the run waits for as long as ldd does not return
LddWaits == neverReturns = "ldd" /\ pc \in {"detect", "libraries", "plugins"}

\* scan_qml_imports: the imports qmlimportscanner reports for a project
\* with QML sources; a scanner that does not return within 60 seconds
\* raises TimeoutExpired, and the list is empty
scan_qml_imports ==
  IF qmlProject /\ neverReturns # "qmlimportscanner"
  THEN << [name |-> <<"Q","t","Q","u","i","c","k">>, path |-> QmlModulePath] >> ELSE <<>>

\* what a run leaves alone: the machine, the other components, the
\* collector's fields besides qt_detected, and the record of the first run
DeployFrame ==
  UNCHANGED <<polVars, stackVars, machineVars, guiVars, colRoot, colCore, colEverything,
              qt_detection_complete, colOut, colPc, run, first_run>>

\* the run ends with deploy_qt returning False after logging error
Failed(error) ==
  /\ pc' = "done"
  /\ deploy_result' = "False"
  /\ deploy_error' = error

\* main, lines 320-330, once validate_arguments returned v
Validated(v) ==
  /\ pc' = IF v = "ok" THEN "start" ELSE "done"
  /\ deploy_result' = IF v = "ok" THEN deploy_result ELSE "exit 1"
  /\ deploy_error' = IF v = "ok" THEN deploy_error ELSE invalidInput
  /\ stages' = IF v = "ok" THEN Append(stages, "Validate") ELSE stages

\* validate_arguments of the command line program
ValidateArguments ==
  /\ pc = "validate"
  /\ Validated(validate_arguments(bundle))
  /\ DeployFrame
  /\ UNCHANGED <<fhs_like_mode, fhs_prefix, appdir_paths, deployer_qt_detected,
                 deployer_qt_detection_complete, qt_to_be_bundled_info, bundle,
                 problematic_files, removed_libraries, qt_detected>>

\* deploy_qt, lines 135-161, for an executable that exists
LayoutChosen(force, d) ==
  /\ fhs_like_mode' = (d.fhs_like_mode \/ force)
  /\ fhs_prefix' = (IF force /\ ~d.fhs_like_mode THEN TargetDir ELSE d.fhs_prefix)
  /\ appdir_paths' =
       AppDirPaths(TargetDir, d.fhs_like_mode \/ force,
                   IF force /\ ~d.fhs_like_mode THEN TargetDir ELSE d.fhs_prefix)
  /\ pc' = "structure"
  /\ stages' = Append(stages, "LayoutReady")
  /\ UNCHANGED <<deploy_result, deploy_error>>

\* deploy_qt, lines 128-161: the executable must exist; the layout mode
\* and the AppDirPaths
DetermineFhsMode ==
  /\ pc = "start"
  /\ IF ~os_path_exists(bundle, exePath)
     THEN /\ Failed("Executable not found")
          /\ UNCHANGED <<fhs_like_mode, fhs_prefix, appdir_paths, stages>>
     ELSE \E d \in {determine_fhs_mode(bundle, exePath, fhs_prefix)} :
            LayoutChosen(/\ ApprunFile # <<>>
                         /\ os_path_exists(bundle, ApprunFile)
                         /\ force_fhs_mode(ApprunContent[apprun]),
                         d)
  /\ DeployFrame
  /\ UNCHANGED <<deployer_qt_detected, deployer_qt_detection_complete,
                 qt_to_be_bundled_info, bundle, problematic_files, removed_libraries, qt_detected>>

\* _create_appdir_structure
CreateAppDirStructure ==
  /\ pc = "structure"
  /\ LET app_name == os_path_basename(exePath)
         target_executable ==
           IF fhs_like_mode THEN os_join(appdir_paths.BIN_DIR, app_name)
           ELSE os_join(TargetDir, app_name)
         apprun_path == os_join(TargetDir, <<"A","p","p","R","u","n">>)
         copied == os_chmod(CopyElf(bundle, exePath, target_executable, "structure"),
                            target_executable)
     IN  bundle' =
           IF os_path_exists(copied, apprun_path) THEN copied
           ELSE copied \cup {[NewFile(apprun_path, "script", ApprunFile, <<>>, "structure")
                                EXCEPT !.steps = <<"copied", "chmod">>]}
  /\ pc' = "detect"
  /\ stages' = Append(stages, "StructureCreated")
  /\ DeployFrame
  /\ UNCHANGED <<fhs_like_mode, fhs_prefix, appdir_paths, deployer_qt_detected,
                 deployer_qt_detection_complete, qt_to_be_bundled_info, deploy_result,
                 deploy_error, problematic_files, removed_libraries, qt_detected>>

\* deploy_qt, lines 171-196, once get_libs returned g and the deployer's
\* own detection gave own
QtDetected(g, own) ==
  /\ qt_detected' = g.qt_detected
  /\ deployer_qt_detected' = (IF g.qt_detected # 0 THEN g.qt_detected ELSE own)
  /\ qt_to_be_bundled_info' =
       IF (IF g.qt_detected # 0 THEN g.qt_detected ELSE own) # 0 /\ qmakeFound
       THEN QmakeInfo ELSE qt_to_be_bundled_info

DependenciesFound(g) ==
  \E own \in {detect_qt_version(g.libs, 1, deployer_qt_detected)} : QtDetected(g, own)

\* deploy_qt, lines 169-196: the dependencies of the executable, the Qt
\* version and what qmake reports
DetectQt ==
  /\ pc = "detect"
  /\ ~LddWaits
  /\ \E g \in {get_libs(bundle, exePath, colCore, colEverything,
                         qt_detected, qt_detection_complete)} : DependenciesFound(g)
  /\ deployer_qt_detection_complete' = TRUE
  /\ pc' = "libraries"
  /\ stages' = stages \o <<"DependenciesResolved", "VersionDetected">>
  /\ DeployFrame
  /\ UNCHANGED <<fhs_like_mode, fhs_prefix, appdir_paths, bundle, deploy_result,
                 deploy_error, problematic_files, removed_libraries>>

\* _deploy_all_libraries running its GNU_STACK loop before its copy loop
LibraryStages_PatchBeforeCopy(r) ==
  IF r.error = "strip" THEN <<>>
  ELSE IF r.patched THEN <<"StackPatched", "LibrariesDeployed">>
  ELSE <<"LibrariesDeployed">>

\* the stages gone through inside _deploy_all_libraries when it returned
\* r: the copy loop with the cleanup (lines 498-549), then the GNU_STACK
\* loop (lines 552-556), which an empty library list never reaches
LibraryStages(r) ==
  IF r.error = "strip" THEN <<>>
  ELSE IF r.error = "fix_executable_stack" THEN <<"LibrariesDeployed">>
  ELSE IF r.patched THEN <<"LibrariesDeployed", "StackPatched">>
  ELSE <<"LibrariesDeployed">>

\* deploy_qt, lines 199-203, once _deploy_all_libraries returned r
LibrariesDeployed(r) ==
  /\ bundle' = r.fs
  /\ removed_libraries' = r.removed
  /\ qt_detected' = r.qt
  /\ pc' = IF ~r.ok THEN "done"
           ELSE IF deployer_qt_detected > 0 THEN "system_qt" ELSE "desktop"
  /\ deploy_result' = IF r.ok THEN deploy_result ELSE "False"
  /\ deploy_error' = r.error
  /\ stages' = stages \o LibraryStages(r)

\* _deploy_all_libraries and the return of deploy_qt when it fails
DeployAllLibraries ==
  /\ pc = "libraries"
  /\ ~LddWaits
  /\ \E r \in {deploy_all_libraries(bundle, exePath, appdir_paths, deployer_qt_detected,
                                     qt_to_be_bundled_info, colCore, colEverything,
                                     qt_detected, qt_detection_complete)} :
       LibrariesDeployed(r)
  /\ DeployFrame
  /\ UNCHANGED <<fhs_like_mode, fhs_prefix, appdir_paths, deployer_qt_detected,
                 deployer_qt_detection_complete, qt_to_be_bundled_info, problematic_files>>

\* deploy_qt returning False when _deploy_system_qt_libraries copied nothing
SystemQtDeployed_Fatal(ok, fs) ==
  /\ bundle' = fs
  /\ pc' = IF ok THEN "plugins" ELSE "done"
  /\ deploy_result' = IF ok THEN deploy_result ELSE "False"
  /\ deploy_error' = IF ok THEN deploy_error ELSE "system_qt"

\* deploy_qt, lines 203-207, once _deploy_system_qt_libraries left the
\* bundle fs: it returns False when it copied nothing, and deploy_qt only
\* warns
SystemQtDeployed(ok, fs) ==
  /\ bundle' = fs
  /\ pc' = "plugins"
  /\ UNCHANGED <<deploy_result, deploy_error>>

\* _deploy_system_qt_libraries
DeploySystemQtLibraries ==
  /\ pc = "system_qt"
  /\ \E fs \in {deploy_system_qt_libraries(bundle, 1, deployer_qt_detected, appdir_paths)} :
       SystemQtDeployed(fs # bundle, fs)
  /\ stages' = Append(stages, "RpathFixed")
  /\ DeployFrame
  /\ UNCHANGED <<fhs_like_mode, fhs_prefix, appdir_paths, deployer_qt_detected,
                 deployer_qt_detection_complete, qt_to_be_bundled_info,
                 problematic_files, removed_libraries, qt_detected>>

\* deploy_qt, lines 216-219, once _deploy_plugins returned r
PluginsDeployed(r) ==
  /\ bundle' = r.fs
  /\ pc' = IF r.ok THEN "qml" ELSE "done"
  /\ deploy_result' = IF r.ok THEN deploy_result ELSE "False"
  /\ deploy_error' = r.error
  /\ stages' = IF r.ok THEN Append(stages, "PluginsDeployed") ELSE stages

\* deploy_qt, lines 211-219, once analyze_required_components found plugins
PluginsRequired(plugins) ==
  \E r \in {IF plugins = {} THEN [ok |-> TRUE, fs |-> bundle, error |-> "none"]
            ELSE deploy_plugins(bundle, plugins, qt_to_be_bundled_info, appdir_paths)} :
    PluginsDeployed(r)

\* analyze_required_components once its get_libs call returned g
ComponentsAnalyzed(g) ==
  /\ qt_detected' = g.qt_detected
  /\ \E plugins \in {determine_plugins_from_libraries(analyze_qt_libraries(g.libs))} :
       PluginsRequired(plugins)

\* analyze_required_components and _deploy_plugins
DeployPlugins ==
  /\ pc = "plugins"
  /\ ~LddWaits
  /\ \E g \in {get_libs(bundle, exePath, colCore, colEverything,
                         qt_detected, qt_detection_complete)} : ComponentsAnalyzed(g)
  /\ DeployFrame
  /\ UNCHANGED <<fhs_like_mode, fhs_prefix, appdir_paths, deployer_qt_detected,
                 deployer_qt_detection_complete, qt_to_be_bundled_info, problematic_files, removed_libraries>>

\* _deploy_qml_imports_with_scanner: the imports qmlimportscanner reports
\* for a project with QML sources, then the critical modules
DeployQmlImports ==
  /\ pc = "qml"
  /\ LET imports == scan_qml_imports
         deployed ==
           IF imports = <<>> THEN bundle
           ELSE deploy_qml_import(bundle, imports[1].path,
                                  qml_import_dest_path(TargetDir, imports[1].name,
                                                       imports[1].path))
         qml_dest == os_join(TargetDir, <<"q","m","l">>)
         critical1 ==
           IF imports = <<>> THEN deployed
           ELSE deploy_qml_import(deployed,
                                  os_join(qt_to_be_bundled_info.QT_INSTALL_QML,
                                          <<"Q","t","Q","u","i","c","k","/","C","o","n","t","r","o","l","s",".","2">>),
                                  os_join(qml_dest, <<"Q","t","Q","u","i","c","k","/","C","o","n","t","r","o","l","s",".","2">>))
     IN  bundle' =
           IF imports = <<>> THEN critical1
           ELSE deploy_qml_import(critical1,
                                  os_join(qt_to_be_bundled_info.QT_INSTALL_QML,
                                          <<"Q","t","Q","u","i","c","k","/","T","e","m","p","l","a","t","e","s",".","2">>),
                                  os_join(qml_dest, <<"Q","t","Q","u","i","c","k","/","T","e","m","p","l","a","t","e","s",".","2">>))
  /\ pc' = "qt_conf"
  /\ DeployFrame
  /\ UNCHANGED <<fhs_like_mode, fhs_prefix, appdir_paths, deployer_qt_detected,
                 deployer_qt_detection_complete, qt_to_be_bundled_info, deploy_result,
                 deploy_error, stages, problematic_files, removed_libraries, qt_detected>>

\* _create_qt_conf
CreateQtConf ==
  /\ pc = "qt_conf"
  /\ LET qt_conf_path == IF fhs_like_mode THEN os_join(appdir_paths.BIN_DIR, <<"q","t",".","c","o","n","f">>)
                         ELSE os_join(TargetDir, <<"q","t",".","c","o","n","f">>)
     IN  bundle' = IF os_path_exists(bundle, qt_conf_path) THEN bundle
                   ELSE bundle \cup {NewFile(qt_conf_path, "data", <<>>, <<>>, "qt_conf")}
  /\ pc' = "translations"
  /\ DeployFrame
  /\ UNCHANGED <<fhs_like_mode, fhs_prefix, appdir_paths, deployer_qt_detected,
                 deployer_qt_detection_complete, qt_to_be_bundled_info, deploy_result,
                 deploy_error, stages, problematic_files, removed_libraries, qt_detected>>

\* _deploy_qt_translations: the .qm files of QT_INSTALL_TRANSLATIONS
DeployQtTranslations ==
  /\ pc = "translations"
  /\ bundle' =
       IF \/ qt_to_be_bundled_info = NoQtInfo
          \/ qt_to_be_bundled_info.QT_INSTALL_TRANSLATIONS = <<>>
          \/ ~os_path_exists(bundle, qt_to_be_bundled_info.QT_INSTALL_TRANSLATIONS)
       THEN bundle
       ELSE bundle \cup
            {NewFile(os_join(appdir_paths.TRANSLATIONS_DIR, os_path_basename(p)),
                     "data", p, <<>>, "translations") :
               p \in {q \in MachineFiles :
                        /\ os_path_dirname(q) = qt_to_be_bundled_info.QT_INSTALL_TRANSLATIONS
                        /\ EndsWith(q, <<".","q","m">>)}}
  /\ pc' = "desktop"
  /\ DeployFrame
  /\ UNCHANGED <<fhs_like_mode, fhs_prefix, appdir_paths, deployer_qt_detected,
                 deployer_qt_detection_complete, qt_to_be_bundled_info, deploy_result,
                 deploy_error, stages, problematic_files, removed_libraries, qt_detected>>

\* shutil_copy2(src, dest) of a data file unless dest exists
CopyUnlessExists(fs, src, dest) ==
  IF os_path_exists(fs, dest) THEN fs
  ELSE fs \cup {NewFile(dest, "data", src, <<>>, "desktop")}

\* _deploy_desktop_integration: the icon is copied as .DirIcon too, when
\* the icon itself is not yet there
deploy_desktop_integration(fs, target_dir, desktop_file, icon_file) ==
  LET with_desktop ==
        IF os_path_exists(fs, desktop_file)
        THEN CopyUnlessExists(fs, desktop_file,
                              os_join(target_dir, os_path_basename(desktop_file)))
        ELSE fs
      target_icon == os_join(target_dir, os_path_basename(icon_file))
  IN  IF os_path_exists(with_desktop, icon_file) /\ ~os_path_exists(with_desktop, target_icon)
      THEN CopyUnlessExists(CopyUnlessExists(with_desktop, icon_file, target_icon),
                            icon_file, os_join(target_dir, <<".","D","i","r","I","c","o","n">>))
      ELSE with_desktop

\* deploy_qt, lines 240-241
DeployDesktopIntegration ==
  /\ pc = "desktop"
  /\ bundle' = deploy_desktop_integration(bundle, TargetDir, DesktopPath, IconPath)
  /\ pc' = "resources"
  /\ DeployFrame
  /\ UNCHANGED <<fhs_like_mode, fhs_prefix, appdir_paths, deployer_qt_detected,
                 deployer_qt_detection_complete, qt_to_be_bundled_info, deploy_result,
                 deploy_error, stages, problematic_files, removed_libraries, qt_detected>>

\* _deploy_application_resources: the project has no resources directory
DeployApplicationResources ==
  /\ pc = "resources"
  /\ pc' = "rpaths"
  /\ stages' = Append(stages, "ExtrasDeployed")
  /\ DeployFrame
  /\ UNCHANGED <<fhs_like_mode, fhs_prefix, appdir_paths, deployer_qt_detected,
                 deployer_qt_detection_complete, qt_to_be_bundled_info, bundle, deploy_result,
                 deploy_error, problematic_files, removed_libraries, qt_detected>>

\* _verify_and_fix_rpaths, then deploy_qt returns True
VerifyAndFixRpaths ==
  /\ pc = "rpaths"
  /\ problematic_files' = find_problematic_files(bundle, TargetDir)
  /\ \E fixed \in {apply_final_binary_fixes(
                       bundle, os_join(TargetDir, os_path_basename(exePath)))} :
       bundle' = IF fhs_like_mode
                 THEN apply_final_binary_fixes(
                        fixed, os_join(appdir_paths.BIN_DIR, os_path_basename(exePath)))
                 ELSE fixed
  /\ deploy_result' = "True"
  /\ pc' = "done"
  /\ stages' = Append(stages, "Verified")
  /\ DeployFrame
  /\ UNCHANGED <<fhs_like_mode, fhs_prefix, appdir_paths, deployer_qt_detected,
                 deployer_qt_detection_complete, qt_to_be_bundled_info, deploy_error,
                 qt_detected, removed_libraries>>

(***************************************************************************)
(* Specification SpecRedeploy: the program run a second time, with the     *)
(* same arguments on the same machine, on the bundle its first run left.   *)
(***************************************************************************)
\* what a file of the bundle holds: where it is, what it is, the bytes it
\* was copied from and what relinking, stripping and stack patching made
\* of them
Content(f) ==
  [path |-> f.path, kind |-> f.kind, src |-> f.src, rpath |-> f.rpath,
   stripped |-> \E i \in 1..Len(f.steps) : f.steps[i] = "stripped",
   stack_fixed |-> f.stack_fixed]

Contents(fs) == {Content(f) : f \in fs}

\* the second run: a new process, hence a new QtDeployer and a new
\* LddDependencyCollector, on the target directory as it is
RunAgain ==
  /\ pc = "done"
  /\ run = 1
  /\ run' = 2
  /\ first_run' = [result |-> deploy_result, bundle |-> Contents(bundle)]
  /\ pc' = "validate"
  /\ fhs_like_mode' = FALSE
  /\ fhs_prefix' = <<>>
  /\ appdir_paths' = NoPaths
  /\ deployer_qt_detected' = 0
  /\ deployer_qt_detection_complete' = FALSE
  /\ qt_to_be_bundled_info' = NoQtInfo
  /\ deploy_result' = "none"
  /\ problematic_files' = {}
  /\ removed_libraries' = {}
  /\ deploy_error' = "none"
  /\ stages' = <<>>
  /\ qt_detected' = 0
  /\ UNCHANGED <<polVars, stackVars, machineVars, guiVars, colRoot, colCore,
                 colEverything, qt_detection_complete, colOut, colPc, bundle>>

\* the number of deploy_qt calls made on one QtDeployer
MaxCalls == 3

\* the other of the two executables of the model: with or without the
\* first library among its dependencies
OtherExecutable(deps) == IF deps = {LibcId} THEN {2, LibcId} ELSE {LibcId}

\* a further call deployer.deploy_qt(other executable, target directory) on
\* the QtDeployer of the call that has returned: the caller has removed the
\* target directory; the attributes of the deployer and of its collector
\* are the ones the earlier call left
DeployAnother ==
  /\ pc = "done"
  /\ run < MaxCalls
  /\ run' = run + 1
  /\ first_run' = IF run = 1 THEN [result |-> deploy_result, bundle |-> Contents(bundle)]
                   ELSE first_run
  /\ lddGraph' = [lddGraph EXCEPT ![1] = OtherExecutable(@)]
  /\ bundle' = {}
  /\ pc' = "start"
  /\ deploy_result' = "none"
  /\ deploy_error' = "none"
  /\ stages' = <<>>
  /\ problematic_files' = {}
  /\ removed_libraries' = {}
  /\ UNCHANGED <<fhs_like_mode, fhs_prefix, appdir_paths, deployer_qt_detected,
                 deployer_qt_detection_complete, qt_to_be_bundled_info>>
  /\ UNCHANGED <<polVars, stackVars, collectVars, guiVars>>
  /\ UNCHANGED <<exePath, hasVdso, systemQtInstalled, sourceRpath, patchelfOk, apprun,
                 qmakeFound, qmlProject, stripInstalled, lddFailing, qt6Installed,
                 invalidInput, missingLibrary, neverReturns>>

(***************************************************************************)
(* The graphical front end (gui/MainWindow.py): the main window holds one  *)
(* QtDeployerWidget and one LddDeployerWidget, each with a deploy button   *)
(* that starts a worker process through a QProcess.  A worker is the       *)
(* command line program (QtDeployerWidget) or LddDeployerWorker.py         *)
(* (LddDeployerWidget); each writes under the deploy path of its request.  *)
(***************************************************************************)
\* the deploy paths a request may name
DeployPaths == {"/out/a", "/out/b"}

\* the requests after which no further worker is started
MaxDeployments == 3

\* deploy_process = None
NoProcess == [state |-> "None", deploy_path |-> ""]

\* a QProcess started for a request
Started(deploy_path) == [state |-> "Running", deploy_path |-> deploy_path]

\* _show_message_box: QMessageBox.exec_() opens a modal box and returns
\* when the user closes it; then names what the caller does afterwards
ShowMessageBox(title, then) ==
  message_boxes' = Append(message_boxes, [title |-> title, then |-> then])

GuiInit ==
  /\ qt_deploy_process = NoProcess
  /\ ldd_deploy_process = NoProcess
  /\ ldd_deploy_button = TRUE
  /\ message_boxes = <<>>
  /\ deployments_started = 0

\* QtDeployerWidget._start_deploy, the slot of its deploy button: with the
\* required fields filled it binds a new QProcess to deploy_process and
\* starts the command line program.  The QProcess the attribute held loses
\* its only reference and is destroyed, and its process with it.
QtStartDeploy ==
  /\ message_boxes = <<>>
  /\ deployments_started < MaxDeployments
  /\ \E filled \in BOOLEAN, deploy_path \in DeployPaths :
       IF ~filled
       THEN /\ ShowMessageBox("Error", "return")
            /\ UNCHANGED <<qt_deploy_process, deployments_started>>
       ELSE /\ qt_deploy_process' = Started(deploy_path)
            /\ deployments_started' = deployments_started + 1
            /\ UNCHANGED message_boxes
  /\ UNCHANGED <<ldd_deploy_process, ldd_deploy_button>>

\* the worker of the QtDeployerWidget exits:
\* QtDeployerWidget._handle_process_finished up to its message box
QtHandleProcessFinished ==
  /\ qt_deploy_process.state = "Running"
  /\ \E exit_code \in {0, 1} :
       ShowMessageBox(IF exit_code = 0 THEN "Success" ELSE "Error", "qt_finished")
  /\ qt_deploy_process' = [qt_deploy_process EXCEPT !.state = "NotRunning"]
  /\ UNCHANGED <<ldd_deploy_process, ldd_deploy_button, deployments_started>>

\* LddDeployerWidget._start_deploy, the slot of its deploy button: with
\* valid inputs it disables the button and starts LddDeployerWorker.py; a
\* process that does not start within three seconds is handed to
\* _deployment_finished(-1, 1)
LddStartDeploy ==
  /\ message_boxes = <<>>
  /\ ldd_deploy_button
  /\ deployments_started < MaxDeployments
  /\ \E valid \in BOOLEAN, started \in BOOLEAN, deploy_path \in DeployPaths :
       IF ~valid
       THEN /\ ShowMessageBox("Error", "return")
            /\ UNCHANGED <<ldd_deploy_process, ldd_deploy_button, deployments_started>>
       ELSE IF ~started
       THEN /\ ShowMessageBox("Error", "start_failed")
            /\ UNCHANGED <<ldd_deploy_process, ldd_deploy_button, deployments_started>>
       ELSE /\ ldd_deploy_process' = Started(deploy_path)
            /\ ldd_deploy_button' = FALSE
            /\ deployments_started' = deployments_started + 1
            /\ UNCHANGED message_boxes
  /\ UNCHANGED qt_deploy_process

\* the worker of the LddDeployerWidget exits:
\* LddDeployerWidget._deployment_finished up to its message box
LddDeploymentFinished ==
  /\ ldd_deploy_process.state = "Running"
  /\ ldd_deploy_button' = TRUE
  /\ ldd_deploy_process' = NoProcess
  /\ \E exit_code \in {0, 1} :
       ShowMessageBox(IF exit_code = 0 THEN "Success" ELSE "Error", "return")
  /\ UNCHANGED <<qt_deploy_process, deployments_started>>

\* the user closes the message box on top, and the slot that opened it
\* goes on: _handle_process_finished sets deploy_process to None, the
\* failed start shows its second box
CloseMessageBox ==
  /\ message_boxes # <<>>
  /\ LET box == message_boxes[Len(message_boxes)]
         rest == SubSeq(message_boxes, 1, Len(message_boxes) - 1)
     IN  /\ message_boxes' = IF box.then = "start_failed"
                             THEN Append(rest, [title |-> "Error", then |-> "return"])
                             ELSE rest
         /\ qt_deploy_process' = IF box.then = "qt_finished" THEN NoProcess
                                 ELSE qt_deploy_process
  /\ UNCHANGED <<ldd_deploy_process, ldd_deploy_button, deployments_started>>

\* the worker processes that are running
RunningWorkers ==
  {w \in {[widget |-> "QtDeployerWidget", process |-> qt_deploy_process],
          [widget |-> "LddDeployerWidget", process |-> ldd_deploy_process]} :
     w.process.state = "Running"}

(***************************************************************************)
(* Properties of the bundling policy (checked under SpecPolicy).           *)
(***************************************************************************)
Decided == polDecision \in {"Bundle", "Exclude"}
polName == os_path_basename(polPath)

\* name equals an entry of the list, or begins with an entry followed by "."
ListedOrVersioned(name, list) ==
  \E i \in 1..Len(list) : name = list[i] \/ StartsWith(name, list[i] \o <<".">>)

\* name begins with an entry of the list
BeginsWithOneOf(name, list) == \E i \in 1..Len(list) : StartsWith(name, list[i])

\* C1: a library whose name is an entry of the never-exclude list is decided
\* Bundle in the default mode, in the all-but-core mode and in the
\* bundle-everything mode alike.
C1_NeverExcludeAlwaysBundled ==
  (Decided /\ polName \in SeqToSet(NEVER_EXCLUDE_LIST)) => polDecision = "Bundle"

\* a never-exclude entry, given as an absolute path, decided in all-but-core mode
C1_Witness ==
  /\ polDecision = "Bundle" /\ polCore /\ ~polEverything
  /\ polPath = Chars_usr_lib \o <<"l","i","b","x","c","b","-","s","h","m",".","s","o">>

\* C2: in all-but-core mode a non-empty library path whose name is neither
\* one of the web-engine (NSS) names nor matched by the never-exclude list is
\* decided Exclude exactly when its basename equals an exclude-list entry or
\* begins with an entry followed by "."; libc.so.6.2 is excluded and
\* libcrypt.so is bundled.
C2_AllButCoreExcludesListedOnly ==
  (Decided /\ polCore /\ ~polEverything) =>
    /\ ( /\ polPath # <<>>
         /\ ~BeginsWithOneOf(polName, webengine_required_libs)
         /\ ~ListedOrVersioned(polName, NEVER_EXCLUDE_LIST) )
       => (polDecision = "Exclude" <=> ListedOrVersioned(polName, GENERATED_EXCLUDE_LIST))
    /\ polName = <<"l","i","b","c",".","s","o",".","6",".","2">> => polDecision = "Exclude"
    /\ polName = <<"l","i","b","c","r","y","p","t",".","s","o">> => polDecision = "Bundle"

\* C2 as first stated, the empty path included: it fails there, because
\* should_exclude_library("") is TRUE (line 140) though the empty basename
\* matches no exclude-list entry
C2_AsStated ==
  ( /\ Decided /\ polCore /\ ~polEverything
    /\ ~BeginsWithOneOf(polName, webengine_required_libs)
    /\ ~ListedOrVersioned(polName, NEVER_EXCLUDE_LIST) )
  => (polDecision = "Exclude" <=> ListedOrVersioned(polName, GENERATED_EXCLUDE_LIST))

\* libc.so.6.2 has been excluded in all-but-core mode
C2_Witness ==
  /\ polCore /\ ~polEverything /\ polDecision = "Exclude"
  /\ polPath = <<"l","i","b","c",".","s","o",".","6",".","2">>

\* C3: with colEverything set the decision is Bundle for every path,
\* whatever the tables and the other flag say.
C3_BundleEverythingBundlesAll == (Decided /\ polEverything) => polDecision = "Bundle"

\* libc.so.6, an exclude-list entry, bundled with both flags set
C3_Witness ==
  /\ polEverything /\ polCore /\ polDecision = "Bundle"
  /\ polPath = <<"l","i","b","c",".","s","o",".","6">>

(***************************************************************************)
(* Properties of the dependency collector (checked under SpecCollect).     *)
(***************************************************************************)
\* the libraries ldd lists for a file
Dependencies(path) ==
  IF path \in SeqToSet(Files) THEN {Files[j] : j \in lddGraph[FileId(path)]} ELSE {}

RECURSIVE Closure(_)
Closure(S) ==
  LET next == S \cup UNION {Dependencies(p) : p \in S}
  IN  IF next = S THEN S ELSE Closure(next)

\* the libraries reachable from the root along one or more dependency edges
ReachableLibraries == Closure(Dependencies(colRoot))

NoDuplicates(s) == \A i, j \in DOMAIN s : i # j => s[i] # s[j]

\* the files whose ldd output has at least two lines, or lists nothing
ListingParses(path) ==
  Dependencies(path) = {}
    \/ Len(output_lines(subprocess_run_ldd(bundle, path).stdout)) >= 2

\* C4, as the claim states it: for every dependency graph, cyclic ones
\* included, get_libs ends, the collection returns exactly the libraries
\* reachable from the root, and the list returned names each library once
\* (all of them when everything is bundled).
C4_AsStated ==
  colPc = "done" =>
    /\ colOut.all_libraries = ReachableLibraries
    /\ NoDuplicates(colOut.libs)
    /\ colEverything => SeqToSet(colOut.libs) = ReachableLibraries

\* C4, the part the code keeps: the same, for the graphs in which ldd prints
\* at least two lines for the root and for every library reachable from it.
C4_ExactWhenListingsParse ==
  (colPc = "done" /\ \A p \in {colRoot} \cup ReachableLibraries : ListingParses(p)) =>
    /\ colOut.all_libraries = ReachableLibraries
    /\ NoDuplicates(colOut.libs)
    /\ colEverything => SeqToSet(colOut.libs) = ReachableLibraries

\* the three-library cycle, entered at one of its members, collected in full
C4_Witness ==
  /\ colPc = "done"
  /\ colRoot = Files[2]
  /\ lddGraph[2] = {3} /\ lddGraph[3] = {4} /\ lddGraph[4] = {2}
  /\ colOut.all_libraries = {Files[2], Files[3], Files[4]}

(***************************************************************************)
(* Properties of the GNU_STACK patcher (checked under SpecStack).          *)
(***************************************************************************)
StackEntries == {elfParams.entries[i] : i \in DOMAIN elfParams.entries}
GnuStackEntries == {e \in StackEntries : e.p_type = PT_GNU_STACK}
IsRWX(e) == (e.p_flags % 2 = 1) /\ ((e.p_flags \div 2) % 2 = 1) /\ ((e.p_flags \div 4) % 2 = 1)
IsRWNoX(e) == (e.p_flags % 2 = 0) /\ ((e.p_flags \div 2) % 2 = 1) /\ ((e.p_flags \div 4) % 2 = 1)

\* the entries with the flags word of every RWX GNU_STACK entry set to 6
WithStackRW(entries) ==
  [i \in DOMAIN entries |->
     IF entries[i].p_type = PT_GNU_STACK /\ IsRWX(entries[i])
     THEN [p_type |-> PT_GNU_STACK, p_flags |-> 6] ELSE entries[i]]

\* C5: a second call of fix_executable_stack leaves the bytes the first call
\* left, for 32- and 64-bit files of either byte order and any flags.
C5_FixIsIdempotent == applied >= 2 => elfFile = elfPrev

\* two calls were made on a file that the first call changed
C5_Witness == applied = 2 /\ elfPrev # elfOrig /\ elfParams.is64 /\ ~elfParams.lsb

\* C6: on an ELF file whose GNU_STACK flags are read+write without execute
\* a call changes no byte of the file.
C6_RwStackLeftUnchanged ==
  ( /\ applied >= 1 /\ elfParams.magicOk
    /\ GnuStackEntries # {} /\ \A e \in GnuStackEntries : IsRWNoX(e) )
  => elfFile = elfOrig

\* a call has reported a stack that was already non-executable
C6_Witness ==
  /\ applied >= 1 /\ elfParams.magicOk
  /\ GnuStackEntries # {} /\ \A e \in GnuStackEntries : IsRWNoX(e)
  /\ elfReport = <<"Already not executable stack.">>

\* C7: on an ELF file with a GNU_STACK entry whose flags include read, write
\* and execute, a call leaves the file equal to the original with the flags
\* word of that entry holding read+write (6) and every other byte as it was,
\* in both ELF classes and both byte orders.
C7_RwxStackPatchedInPlace ==
  (applied >= 1 /\ elfParams.magicOk /\ \E e \in GnuStackEntries : IsRWX(e))
  => elfFile = ElfImage(elfParams.is64, elfParams.lsb, TRUE, WithStackRW(elfParams.entries))

\* a 32-bit big-endian file has been patched
C7_Witness ==
  /\ applied >= 1 /\ elfParams.magicOk /\ \E e \in GnuStackEntries : IsRWX(e)
  /\ ~elfParams.is64 /\ ~elfParams.lsb /\ elfFile # elfOrig
  /\ elfReport = <<"Patched RWX -> RW-">>

(***************************************************************************)
(* Properties of the deployment (checked under SpecDeploy).                *)
(***************************************************************************)
\* path is dir or lies under it
Under(path, dir) == path = dir \/ StartsWith(path, dir \o <<"/">>)

\* the destination directories of the layout
LayoutDestinations(paths) ==
  {paths.APPRUN, paths.BIN_DIR, paths.LIB_DIR, paths.PLUGINS_DIR, paths.QML_DIR,
   paths.TRANSLATIONS_DIR, paths.SHARE_DIR, paths.DOC_DIR, paths.LIBEXEC_DIR,
   paths.RESOURCES_DIR}

LayoutBuilt == pc \notin {"idle", "validate", "start"} /\ appdir_paths # NoPaths
UsrDir == os_join(TargetDir, <<"u","s","r">>)

\* the files the library loop of _deploy_all_libraries copied
CopiedLibraries == {f \in bundle : f.by = "copy_library"}

\* C8, as the claim states it: in flat mode every destination of the layout
\* lies under the bundle root; in FHS-like mode the library directory of the
\* layout and every path a library was copied to lie under usr/ of the
\* bundle root.
C8_AsStated ==
  LayoutBuilt =>
    /\ ~fhs_like_mode =>
         \A d \in LayoutDestinations(appdir_paths) : Under(d, TargetDir)
    /\ fhs_like_mode =>
         /\ Under(appdir_paths.LIB_DIR, UsrDir)
         /\ \A f \in CopiedLibraries : Under(f.path, UsrDir)

\* an FHS-like deployment that has copied a library
C8_Witness ==
  /\ fhs_like_mode
  /\ Under(appdir_paths.LIB_DIR, UsrDir)
  /\ \E f \in CopiedLibraries : f.path = <<"/","A","p","p","D","i","r","/","l","i","b","/","l","i","b","Q","t","5","G","u","i",".","s","o",".","5">>

\* what the library steps put into the bundle: the libraries (the copied
\* ELF files) by name, and the names of the libraries and their aliases
LibraryFiles == {f \in bundle : f.by \in {"copy_library", "system_qt", "alias"}}
BundledLibraryNames == {os_path_basename(f.path) : f \in {g \in LibraryFiles : g.kind = "elf"}}
BundledNames == {os_path_basename(f.path) : f \in LibraryFiles}

FrameworkLibrary == Files[2]

\* the framework library and the dependencies reachable from it that the
\* default mode bundles
FrameworkClosureNames ==
  {os_path_basename(p) :
     p \in {FrameworkLibrary} \cup
           {q \in Closure(Dependencies(FrameworkLibrary)) :
              should_bundle_library(q, FALSE, FALSE)}}

\* the dependencies reachable from the further Qt libraries of the machine
\* that the default mode bundles
FurtherQtLibraries ==
  {p \in ElfFiles \cup SystemQtFiles : StartsWith(os_path_basename(p), <<"l","i","b","Q","t","5">>)}
FurtherQtClosureNames ==
  {os_path_basename(q) :
     q \in {r \in UNION {Closure({Files[j] : j \in Listing(p)}) : p \in FurtherQtLibraries} :
              should_bundle_library(r, FALSE, FALSE)}}

\* a successful default-mode deployment of a binary that depends on the
\* framework library and on libc.so.6
C9_Scenario ==
  /\ pc = "done" /\ deploy_result = "True"
  /\ lddGraph[1] = {2, LibcId}
  /\ ~colCore /\ ~colEverything

\* C9, as the claim states it: the bundle holds the framework library,
\* holds no libc.so.6, and holds no library besides the framework library
\* and its own transitive non-excluded dependencies.
C9_AsStated ==
  C9_Scenario =>
    /\ os_path_basename(FrameworkLibrary) \in BundledLibraryNames
    /\ <<"l","i","b","c",".","s","o",".","6">> \notin BundledLibraryNames
    /\ BundledLibraryNames \subseteq FrameworkClosureNames

\* C9, amended: the bundle holds the framework library and no libc.so.6,
\* and every library or alias in it is the framework library, one of its
\* transitive non-excluded dependencies, or a file whose name begins with
\* the prefix of the detected framework version (the further Qt libraries
\* of the machine and the version aliases), or a transitive non-excluded
\* dependency of such a further library.
C9_OnlyFrameworkFamilyAdded ==
  C9_Scenario =>
    /\ os_path_basename(FrameworkLibrary) \in BundledLibraryNames
    /\ <<"l","i","b","c",".","s","o",".","6">> \notin BundledLibraryNames
    /\ \A n \in BundledNames :
         \/ n \in FrameworkClosureNames
         \/ StartsWith(n, <<"l","i","b","Q","t","5">>)
         \/ n \in FurtherQtClosureNames

\* the scenario on a machine with a further Qt library: the dependency of
\* the framework library is bundled and so is the further library
C9_Witness ==
  /\ C9_Scenario
  /\ systemQtInstalled
  /\ <<"l","i","b","i","c","u","u","c",".","s","o",".","6","6">> \in BundledLibraryNames
  /\ <<"l","i","b","Q","t","5","X","c","b","Q","p","a",".","s","o",".","5",".","1","5",".","2">> \in BundledLibraryNames

\* the RPATH entries of the ELF files under the bundle root
RpathEntries(f) == SeqToSet(Split(Resolve(bundle, f).rpath, ":"))

\* C10, as the claim states it, on a machine where patchelf is installed:
\* after deploy_qt has returned True no ELF file under the bundle root has
\* an RPATH entry that is an absolute path.
C10_AsStated ==
  (pc = "done" /\ deploy_result = "True" /\ patchelfOk) =>
    \A f \in elf_files(bundle, TargetDir) :
      \A e \in RpathEntries(f) : ~StartsWith(e, <<"/">>)

\* a successful deployment, with patchelf installed, of libraries whose
\* source carries an absolute RPATH
C10_Witness ==
  /\ pc = "done" /\ deploy_result = "True"
  /\ patchelfOk
  /\ sourceRpath = <<"/","o","p","t","/","Q","t","/","l","i","b">>
  /\ CopiedLibraries # {}
  /\ problematic_files # {}

\* C11, as the claim states it: the plugin step (and with it the QML,
\* WebEngine and translation steps, which only it precedes) never ends a run
\* in failure: from a state in which the plugins are being deployed Deploy
\* does not go to the result False.
C11_AsStated == [][pc = "plugins" => deploy_result' # "False"]_vars

\* a run that ended in failure because _deploy_plugins found no plugins
\* directory, after the libraries had been deployed
C11_Witness ==
  /\ pc = "done" /\ deploy_result = "False"
  /\ deploy_error = "Qt plugins directory not found"
  /\ ~qmakeFound
  /\ CopiedLibraries # {}

\* C12: when the binary is missing, no regular file or not executable, or
\* the desktop file, the icon or the AppRun file named on the command line
\* is missing, no file is ever created under the bundle root, and the run
\* ends with exit status 1.
C12_InvalidInputFailsBeforeAnyWrite ==
  invalidInput # "none" =>
    /\ bundle = {}
    /\ pc = "done" => deploy_result = "exit 1"

\* a run on a binary that is not executable, ended by validate_arguments
C12_Witness ==
  /\ invalidInput = "binary not executable"
  /\ pc = "done" /\ deploy_result = "exit 1"
  /\ bundle = {}
  /\ stages = <<>>

\* the libraries ldd lists for a file it does not fail on
ListedDependencies(path) == IF LddFails(path) THEN {} ELSE Dependencies(path)

RECURSIVE ListedClosure(_)
ListedClosure(S) ==
  LET next == S \cup UNION {ListedDependencies(p) : p \in S}
  IN  IF next = S THEN S ELSE ListedClosure(next)

\* C13: get_libs always returns a list; when ldd fails on the root the list
\* is empty, and when ldd fails on a library of the closure the collection
\* is every library reachable from the root along the listings of the files
\* ldd succeeds on, the failing library included, and the list returned is
\* the bundled ones among them.
C13_ResolveFailsSoftly ==
  (colPc = "done" /\ lddFailing # {}) =>
    /\ LddFails(colRoot) => colOut.libs = <<>>
    /\ ~LddFails(colRoot) =>
         /\ colOut.all_libraries = ListedClosure(ListedDependencies(colRoot))
         /\ SeqToSet(colOut.libs) =
              {l \in ListedClosure(ListedDependencies(colRoot)) :
                 should_bundle_library(l, colCore, colEverything)}

\* ldd fails on the framework library, which the root lists next to
\* libc.so.6: both are returned, and what the framework library depends on
\* is not
C13_Witness ==
  /\ colPc = "done"
  /\ lddFailing = {2}
  /\ lddGraph[1] = {2, LibcId} /\ lddGraph[2] = {3}
  /\ colOut.libs = <<Files[2], Files[LibcId]>>

\* C14, as the claim states it: a run never ends in failure because strip
\* (or patchelf) is not installed: no run returns False with the error
\* that the call of a missing strip raised.
C14_AsStated == (pc = "done" /\ deploy_result = "False") => deploy_error # "strip"

\* a run on a machine without strip that ended in failure after the first
\* library was copied and before any other step
C14_Witness ==
  /\ pc = "done" /\ deploy_result = "False"
  /\ ~stripInstalled
  /\ deploy_error = "strip"
  /\ \E f \in CopiedLibraries : f.steps = <<"copied", "chmod">>
  /\ stages = <<"Validate", "LayoutReady", "StructureCreated", "DependenciesResolved",
                "VersionDetected">>

\* the file handed to the patcher has no ELF magic or is cut short inside
\* its ELF header
InvalidElf == ~elfParams.magicOk \/ Len(elfOrig) < EhdrSize(elfParams.is64)

\* the file has no GNU_STACK entry among its program headers
NoGnuStack ==
  \A i \in 1..Len(elfParams.entries) : elfParams.entries[i].p_type # PT_GNU_STACK

\* C15, as the claim states it: on a file that is no valid ELF file, or has
\* no GNU_STACK entry, fix_executable_stack prints its report and returns
\* without an exception, so that the loop of _deploy_all_libraries goes on
\* and returns True.
C15_AsStated ==
  (applied >= 1 /\ (InvalidElf \/ NoGnuStack)) =>
    elfReport \in {<<"Not an ELF file!">>, <<"GNU_STACK segment not found.">>}

\* a file that begins with the ELF magic and ends inside its ELF header:
\* the call raised and left the file as it was
C15_Witness ==
  /\ applied = 1
  /\ elfParams.magicOk /\ elfParams.is64
  /\ Len(elfOrig) = 40
  /\ elfReport = <<"raised">>
  /\ elfFile = elfOrig

\* C16: a second run with the same arguments, on the bundle the first run
\* left, ends in the result of the first run and leaves every file of the
\* bundle with the content the first run gave it, and no other file.
C16_SecondRunChangesNothing ==
  (run = 2 /\ pc = "done") =>
    /\ deploy_result = first_run.result
    /\ Contents(bundle) = first_run.bundle

\* a second successful run over a bundle that holds copied libraries,
\* system Qt libraries and plugins
C16_Witness ==
  /\ run = 2 /\ pc = "done"
  /\ deploy_result = "True"
  /\ first_run.result = "True"
  /\ CopiedLibraries # {}
  /\ \E f \in bundle : f.by = "system_qt"
  /\ \E f \in bundle : f.by = "plugin"

\* the position of a stage in the order of the pipeline
StageIndex(s) == CHOOSE i \in 1..Len(StageOrder) : StageOrder[i] = s

\* the stages of log are stages of the pipeline, each later in its order
\* than the ones logged before it
InPipelineOrder(log) ==
  /\ \A i \in 1..Len(log) : \E k \in 1..Len(StageOrder) : StageOrder[k] = log[i]
  /\ \A i, j \in 1..Len(log) : i < j => StageIndex(log[i]) < StageIndex(log[j])

DeployedLibraries ==
  {f \in bundle : f.kind = "elf" /\ f.by \in {"copy_library", "system_qt"}}

\* C18, as the claim states it, on a machine where patchelf and strip are
\* installed: after a successful run every library Deploy copied has been
\* copied, marked executable, relinked, stripped and GNU_STACK-patched, in
\* this order and each once.
C18_AsStated ==
  (pc = "done" /\ deploy_result = "True" /\ patchelfOk /\ stripInstalled) =>
    \A f \in DeployedLibraries :
      f.steps = <<"copied", "chmod", "relinked", "stripped", "stack_patched">>

\* a successful run with patchelf and strip installed: a library of the
\* library loop was never relinked, and a system Qt library was relinked
\* and neither marked executable, stripped nor patched
C18_Witness ==
  /\ pc = "done" /\ deploy_result = "True"
  /\ patchelfOk /\ stripInstalled
  /\ \E f \in DeployedLibraries :
       f.by = "copy_library" /\ f.steps = <<"copied", "chmod", "stripped", "stack_patched">>
  /\ \E f \in DeployedLibraries :
       f.by = "system_qt" /\ f.steps = <<"copied", "relinked">>

\* C19, as the claim states it: during one get_libs call ldd is run at most
\* once on any path, the root included.
C19_AsStated == colPc = "done" => NoDuplicates(colOut.lddRuns)

\* a get_libs call that ran ldd on the root, on the root again and then on
\* a library
C19_Witness ==
  /\ colPc = "done"
  /\ Len(colOut.lddRuns) >= 3
  /\ colOut.lddRuns[1] = colRoot
  /\ colOut.lddRuns[2] = colRoot
  /\ colOut.lddRuns[3] # colRoot

\* the value of qt_detected after each ldd run of the call, in the order
\* of the runs, from the value qt before the first
RECURSIVE QtDetectedAfter(_, _, _)
RECURSIVE QtDetectedFrom(_, _, _)
QtDetectedAfter(runs, i, qt) ==
  IF i > Len(runs) THEN <<>>
  ELSE QtDetectedFrom(runs, i,
         find_dependency_info(bundle, runs[i], qt, qt_detection_complete).qt_detected)

\* the same, once run i left the value q
QtDetectedFrom(runs, i, q) == <<q>> \o QtDetectedAfter(runs, i + 1, q)

\* once non-zero, the values of log stay what they are
KeptOnceDetected(log) ==
  \A i, j \in 1..Len(log) : (i < j /\ log[i] # 0) => log[j] = log[i]

\* C20, as the claim states it: during a get_libs call the framework
\* version, once it is non-zero after an ldd run, has the same value after
\* every later run and when the call returns.
C20_AsStated ==
  colPc = "done" =>
    \A log \in {QtDetectedAfter(colOut.lddRuns, 1, 0)} :
      /\ KeptOnceDetected(log)
      /\ \A i \in 1..Len(log) : log[i] # 0 => qt_detected = log[i]

\* the executable lists libQt5Gui only, and libQt5Gui lists libQt6Core:
\* version 5 after the runs on the executable, version 6 when the call
\* returns
C20_Witness ==
  /\ colPc = "done"
  /\ qt6Installed
  /\ lddGraph[1] = {2} /\ lddGraph[2] = {3}
  /\ QtDetectedAfter(colOut.lddRuns, 1, 0)[1] = 5
  /\ qt_detected = 6

(***************************************************************************)
(* Properties of the library worklist (checked under SpecDeployFair).      *)
(***************************************************************************)
\* the libraries the loop of _deploy_all_libraries copied into the bundle
CopiedByWorklist == {f \in bundle : f.by = "copy_library"}

\* the basenames of the ELF files of the bundle
BundleNames == {os_path_basename(f.path) : f \in {g \in bundle : g.kind = "elf"}}

\* what get_libs reports for the deployed copy f: the Bundle-classified
\* libraries of its closure
ReportedFor(f) ==
  SeqToSet(get_libs(bundle, f.path, colCore, colEverything,
                    qt_detected, qt_detection_complete).libs)

\* every reported dependency of a copied library whose source exists is in
\* the bundle under its basename
WorklistClosed ==
  \A f \in CopiedByWorklist :
    \A d \in ReportedFor(f) :
      os_path_exists(bundle, d) => os_path_basename(d) \in BundleNames

\* C21: the worklist of _deploy_all_libraries ends (the run leaves the
\* library stage), and once it has run to its end every library it copied
\* has each Bundle-classified dependency that get_libs reports for the
\* deployed copy, and whose source file exists, in the bundle under the
\* same basename.
C21_WorklistEndsClosed ==
  /\ []((\E i \in 1..Len(stages) : stages[i] = "LibrariesDeployed") => WorklistClosed)
  /\ (pc = "libraries" ~> pc # "libraries")

\* the third library is no dependency of the executable's closure: it was
\* found as a dependency of the deployed copy of libQt5XcbQpa.so.5, which
\* _find_missing_qt_platform_libraries had added, and copied in its turn
C21_Witness ==
  /\ \E i \in 1..Len(stages) : stages[i] = "LibrariesDeployed"
  /\ lddGraph[2] = {LibcId}
  /\ \E f \in CopiedByWorklist : f.src = SystemQtLink
  /\ \E f \in CopiedByWorklist : f.src = Files[3]

(***************************************************************************)
(* Properties of a "not found" line (checked under SpecDeploy).            *)
(***************************************************************************)
\* deploy_qt has marked the detection complete and _deploy_all_libraries,
\* which resolves the executable once more, has returned True
ResolvedAfterDetection ==
  /\ deployer_qt_detection_complete
  /\ \E i \in 1..Len(stages) : stages[i] = "LibrariesDeployed"

\* C22, as the claim states it: once deploy_qt has marked the version
\* detection complete, the "not found" line ldd prints for the executable
\* makes its resolution end in an error and not in a dependency list, so
\* that no library is copied from such a list.
C22_AsStated ==
  (missingLibrary /\ ResolvedAfterDetection) => CopiedByWorklist = {}

\* the run of an executable with a "not found" line that copied the
\* libraries get_libs listed for it after the detection was marked
\* complete, and returned True
C22_Witness ==
  /\ missingLibrary /\ ResolvedAfterDetection
  /\ ~qt_detection_complete
  /\ \E f \in CopiedByWorklist : f.src = Files[2]
  /\ pc = "done" /\ deploy_result = "True"

(***************************************************************************)
(* Properties of the RPATH strings (checked under SpecDeploy).             *)
(***************************************************************************)
\* every entry of the RPATH string begins with $ORIGIN
OriginOnly(rpath) ==
  LET parts == Split(rpath, ":")
  IN  \A i \in 1..Len(parts) : StartsWith(parts[i], <<"$","O","R","I","G","I","N">>)

\* the files of the bundle patchelf --set-rpath was run on
Relinked == {f \in bundle : \E i \in 1..Len(f.steps) : f.steps[i] = "relinked"}

\* bundle roots other than the target directory of the run, and the places
\* of a bundle _change_identification computes an RPATH for
BundleRoots == { TargetDir, <<"/">>, <<"/","t","m","p","/","a",":","b">>, <<"/","o","p","t","/","a","p","p","/","A","p","p","D","i","r","/">> }
RelinkedPlaces(paths) ==
  { os_join(paths.LIB_DIR, <<"l","i","b","Q","t","5","X","c","b","Q","p","a",".","s","o",".","5",".","1","5",".","2">>),
    os_join(paths.PLUGINS_DIR, <<"p","l","a","t","f","o","r","m","s","/","l","i","b","q","x","c","b",".","s","o">>),
    os_join(paths.QML_DIR, <<"Q","t","Q","u","i","c","k",".","2","/","l","i","b","q","t","q","u","i","c","k","2","p","l","u","g","i","n",".","s","o">>) }

\* C23: every RPATH string handed to patchelf --set-rpath, by
\* _change_identification and by _apply_final_binary_fixes, is made only
\* of entries that begin with $ORIGIN, in flat and in FHS-like mode and
\* whatever RPATH the file carried; and so is the string
\* _change_identification computes under any other bundle root.
C23_RpathEntriesBeginWithOrigin ==
  /\ \A f \in Relinked : OriginOnly(f.rpath)
  /\ pc = "system_qt" =>
       \A root \in BundleRoots : \A fhs \in BOOLEAN :
         \A p \in RelinkedPlaces(AppDirPaths(root, fhs, root)) :
           OriginOnly(final_rpath(p, AppDirPaths(root, fhs, root)))

\* a run in FHS-like mode on a machine whose libraries carry an absolute
\* RPATH, in which both _change_identification and
\* _apply_final_binary_fixes have set an RPATH
C23_Witness ==
  /\ pc = "done" /\ fhs_like_mode
  /\ sourceRpath = <<"/","o","p","t","/","Q","t","/","l","i","b">>
  /\ \E f \in Relinked : f.by = "system_qt"
  /\ \E f \in Relinked : f.by = "structure"

(***************************************************************************)
(* Properties of the final audit (checked under SpecDeploy).               *)
(***************************************************************************)
\* how often patchelf --set-rpath was run on the file f
RelinkCount(f) == Cardinality({i \in 1..Len(f.steps) : f.steps[i] = "relinked"})

\* the files in which the audit found an absolute RPATH entry, and logged
\* the warning of line 1865: none of them was relinked before the audit,
\* so each carried the RPATH of its source
FoundAbsolute ==
  {f \in bundle : f.path \in problematic_files /\ f.kind = "elf"
                  /\ has_absolute_paths(sourceRpath)}

\* C24, as the claim states it: when the run has ended, exactly one
\* patchelf --set-rpath was run on every ELF file in which the audit found
\* an absolute RPATH entry.
C24_AsStated ==
  (pc = "done" /\ deploy_result = "True") =>
    \A f \in FoundAbsolute : RelinkCount(f) = 1

\* a run that returned True and left a library of the bundle with the
\* absolute RPATH entry the audit had warned about, never relinked
C24_Witness ==
  /\ pc = "done" /\ deploy_result = "True"
  /\ \E f \in FoundAbsolute :
       /\ f.by = "copy_library"
       /\ RelinkCount(f) = 0
       /\ has_absolute_paths(f.rpath)

(***************************************************************************)
(* Properties of external tools that do not return (checked under          *)
(* SpecDeployHang).                                                        *)
(***************************************************************************)
\* C25, as the claim states it: when ldd or qmlimportscanner never
\* returns, the invocation is ended by a timeout and the run goes on to
\* its end.
C25_AsStated == (neverReturns # "none") => <>(pc = "done")

\* the half that holds: a qmlimportscanner that never returns is ended by
\* its timeout, the import list is empty and the run ends
ScannerTimesOut == (neverReturns = "qmlimportscanner") => <>(pc = "done" /\ deploy_result = "True")

\* the run waiting for the ldd of get_libs(executable_path), after the
\* structure of the bundle was created
C25_Witness ==
  /\ neverReturns = "ldd" /\ pc = "detect"
  /\ bundle # {}
  /\ ~ENABLED DetectQt


CleanupIdleInCommandLineModes == ~colEverything => removed_libraries = {}


(***************************************************************************)
(* C27 (checked under SpecStack): after a call of fix_executable_stack on  *)
(* an ELF file with a GNU_STACK entry, no GNU_STACK entry of the file has  *)
(* the execute bit in its flags word, whatever the flags were before the   *)
(* call.                                                                   *)
(***************************************************************************)
HasExecuteBit(e) == e.p_flags % 2 = 1

\* the file on disk is an image whose GNU_STACK entries are without execute
StackNotExecutable ==
  \E entries \in EntrySeqs :
    /\ elfFile = ElfImage(elfParams.is64, elfParams.lsb, TRUE, entries)
    /\ \A i \in DOMAIN entries :
         entries[i].p_type = PT_GNU_STACK => ~HasExecuteBit(entries[i])

C27_AsStated ==
  (applied >= 1 /\ elfParams.magicOk /\ GnuStackEntries # {}) => StackNotExecutable

\* a stack that is executable and readable but not writable (flags 5) was
\* reported as not executable and left as it was
C27_Witness ==
  /\ applied >= 1 /\ elfParams.magicOk
  /\ GnuStackEntries = {[p_type |-> PT_GNU_STACK, p_flags |-> 5]}
  /\ elfFile = elfOrig
  /\ elfReport = <<"Already not executable stack.">>
  /\ ~StackNotExecutable

\* a stack with all three permissions ends without execute
RwxStackEndsNotExecutable ==
  ( /\ applied >= 1 /\ elfParams.magicOk
    /\ GnuStackEntries # {} /\ \A e \in GnuStackEntries : IsRWX(e) )
  => StackNotExecutable


(***************************************************************************)
(* C28 (checked under SpecDeployReused): what a deploy_qt call does        *)
(* depends on its arguments, the options and the file system only: a call  *)
(* for an executable, into an empty target directory, on a deployer that   *)
(* has deployed another executable before, returns what the call for the   *)
(* same executable returned on the new deployer and leaves the same files. *)
(***************************************************************************)
C28_AsStated ==
  (pc = "done" /\ run = 3)
  => (deploy_result = first_run.result /\ Contents(bundle) = first_run.bundle)

\* the executable without framework libraries was deployed without qt.conf
\* by the new deployer; after the deployment of the executable with
\* framework libraries the same deployer takes it for a Qt 5 program and
\* writes qt.conf
C28_Witness ==
  /\ pc = "done" /\ run = 3
  /\ lddGraph[1] = {LibcId}
  /\ deploy_result = "True" /\ first_run.result = "True"
  /\ deployer_qt_detected = 5 /\ qt_detected = 5
  /\ Contents(bundle) # first_run.bundle
  /\ \E f \in bundle : os_path_basename(f.path) = <<"q","t",".","c","o","n","f">>
  /\ ~\E c \in first_run.bundle : os_path_basename(c.path) = <<"q","t",".","c","o","n","f">>

\* on a new deployer an executable without framework libraries ends with no
\* version detected
NewDeployerDetectsNothing ==
  (pc = "done" /\ run = 1 /\ lddGraph[1] = {LibcId} /\ deploy_result = "True")
  => deployer_qt_detected = 0


(***************************************************************************)
(* C29: in flat and in FHS-like mode the RPATH that the deployment sets    *)
(* last on the main executable has an entry that, resolved from the        *)
(* directory of the executable in the bundle, is the directory the         *)
(* dependency libraries were copied to.                                    *)
(***************************************************************************)
RECURSIVE Collapse(_, _)
\* the path components with "", "." and ".." resolved
Collapse(parts, acc) ==
  IF parts = <<>> THEN acc
  ELSE IF Head(parts) = <<".",".">>
  THEN Collapse(Tail(parts), IF acc = <<>> THEN acc ELSE SubSeq(acc, 1, Len(acc) - 1))
  ELSE IF Head(parts) \in {<<>>, <<".">>}
  THEN Collapse(Tail(parts), acc)
  ELSE Collapse(Tail(parts), Append(acc, Head(parts)))

\* the directory an RPATH entry names for a file in directory origin
ResolveEntry(entry, origin) ==
  LET path == IF StartsWith(entry, <<"$","O","R","I","G","I","N">>)
              THEN origin \o SubSeq(entry, 8, Len(entry)) ELSE entry
  IN  <<"/">> \o Join(Collapse(Split(path, "/"), <<>>), <<"/">>)

RpathDirectories(f) ==
  LET parts == Split(f.rpath, ":")
  IN  {ResolveEntry(parts[i], os_path_dirname(f.path)) : i \in 1..Len(parts)}

\* the main executable in the bundle, once its RPATH was set
MainExecutables ==
  {f \in Relinked : f.by = "structure" /\ f.kind = "elf"}

C29_AsStated ==
  (pc = "done" /\ deploy_result = "True")
  => \A f \in MainExecutables : \A l \in CopiedLibraries :
       os_path_dirname(l.path) \in RpathDirectories(f)

\* an FHS-like deployment: the executable is in usr/bin with the final
\* RPATH, the first library was copied to lib/ of the bundle root, and no
\* entry of the RPATH names that directory
C29_Witness ==
  /\ pc = "done" /\ deploy_result = "True" /\ fhs_like_mode
  /\ \E f \in MainExecutables :
       /\ f.path = <<"/","A","p","p","D","i","r","/","u","s","r","/","b","i","n","/","a","p","p">>
       /\ f.rpath = <<"$","O","R","I","G","I","N",":","$","O","R","I","G","I","N","/","l","i","b",":","$","O","R","I","G","I","N","/",".",".","/","l","i","b">>
       /\ RpathDirectories(f) = { <<"/","A","p","p","D","i","r","/","u","s","r","/","b","i","n">>, <<"/","A","p","p","D","i","r","/","u","s","r","/","b","i","n","/","l","i","b">>, <<"/","A","p","p","D","i","r","/","u","s","r","/","l","i","b">> }
  /\ \E l \in CopiedLibraries : l.path = <<"/","A","p","p","D","i","r","/","l","i","b","/","l","i","b","Q","t","5","G","u","i",".","s","o",".","5">>

\* in flat mode the second entry of the RPATH names the library directory
FlatRpathReachesLibraries ==
  (pc = "done" /\ deploy_result = "True" /\ ~fhs_like_mode)
  => \A f \in MainExecutables :
       /\ appdir_paths.LIB_DIR \in RpathDirectories(f)
       /\ \A l \in CopiedLibraries : os_path_dirname(l.path) \in RpathDirectories(f)

\* a flat deployment whose executable was relinked beside a copied library
FlatRpathCase ==
  /\ pc = "done" /\ deploy_result = "True" /\ ~fhs_like_mode
  /\ MainExecutables # {} /\ CopiedLibraries # {}


(***************************************************************************)
(* C30 (checked under SpecGui): the front end never has two deployment     *)
(* worker processes running at the same time; a request starts no worker   *)
(* while the worker of an earlier request is running.                      *)
(***************************************************************************)
C30_AsStated == Cardinality(RunningWorkers) <= 1

\* the worker of the LddDeployerWidget and the worker of the
\* QtDeployerWidget run at the same time on one deploy path
C30_Witness ==
  /\ qt_deploy_process = Started("/out/a")
  /\ ldd_deploy_process = Started("/out/a")
  /\ ~ldd_deploy_button
  /\ message_boxes = <<>>

\* the LddDeployerWidget by itself starts no second worker: its button is
\* disabled for as long as its worker runs
LddButtonDisabledWhileRunning ==
  ldd_deploy_process.state = "Running" => ~ldd_deploy_button

(***************************************************************************)
(* Specifications.                                                         *)
(***************************************************************************)
PolicyNext ==
  Decide /\ UNCHANGED <<stackVars, machineVars, collectVars, deployVars, guiVars>>
InitPolicy ==
  MachineIdle /\ PolicyInit /\ StackIdle /\ CollectIdle /\ DeployIdle /\ GuiInit
SpecPolicy == InitPolicy /\ [][PolicyNext]_vars

StackNext ==
  FixExecutableStack /\ UNCHANGED <<polVars, machineVars, collectVars, deployVars, guiVars>>
InitStack ==
  MachineIdle /\ StackInit /\ PolicyIdle /\ CollectIdle /\ DeployIdle /\ GuiInit
SpecStack == InitStack /\ [][StackNext]_vars

CollectNext ==
  GetLibs /\ UNCHANGED <<polVars, stackVars, machineVars, deployVars, guiVars>>
InitCollect == CollectInit /\ PolicyIdle /\ StackIdle /\ DeployIdle /\ GuiInit
SpecCollect == InitCollect /\ [][CollectNext]_vars

DeployNext ==
  \/ ValidateArguments
  \/ DetermineFhsMode
  \/ CreateAppDirStructure
  \/ DetectQt
  \/ DeployAllLibraries
  \/ DeploySystemQtLibraries
  \/ DeployPlugins
  \/ DeployQmlImports
  \/ CreateQtConf
  \/ DeployQtTranslations
  \/ DeployDesktopIntegration
  \/ DeployApplicationResources
  \/ VerifyAndFixRpaths
InitDeploy ==
  /\ DeployInit /\ neverReturns = "none" /\ ~colEverything
  /\ PolicyIdle /\ StackIdle /\ GuiInit
SpecDeploy == InitDeploy /\ [][DeployNext]_vars

\* the positions of a run at which one of the actions above is enabled
ActivePcs ==
  {"validate", "start", "structure", "detect", "libraries", "system_qt", "plugins",
   "qml", "qt_conf", "translations", "desktop", "resources", "rpaths"}

\* a step of the run: every action above leaves its position, and the only
\* guards of each are its position and, where it runs ldd, that ldd returns
RunStep == pc \in ActivePcs /\ ~LddWaits /\ pc' \in (ActivePcs \cup {"done"}) \ {pc}

\* a run is one sequential process: once it has reached a stage it
\* executes it
SpecDeployFair == InitDeploy /\ [][DeployNext]_vars /\ WF_pc(RunStep)

RedeployNext ==
  \/ ValidateArguments
  \/ DetermineFhsMode
  \/ CreateAppDirStructure
  \/ DetectQt
  \/ DeployAllLibraries
  \/ DeploySystemQtLibraries
  \/ DeployPlugins
  \/ DeployQmlImports
  \/ CreateQtConf
  \/ DeployQtTranslations
  \/ DeployDesktopIntegration
  \/ DeployApplicationResources
  \/ VerifyAndFixRpaths
  \/ RunAgain

\* deploy_qt of a deployer configured through its objects, in any of the
\* three bundling modes
InitDeployModes ==
  DeployInit /\ neverReturns = "none" /\ PolicyIdle /\ StackIdle /\ GuiInit
SpecDeployModes == InitDeployModes /\ [][DeployNext]_vars

\* several deploy_qt calls on one QtDeployer
ReuseNext ==
  \/ ValidateArguments
  \/ DetermineFhsMode
  \/ CreateAppDirStructure
  \/ DetectQt
  \/ DeployAllLibraries
  \/ DeploySystemQtLibraries
  \/ DeployPlugins
  \/ DeployQmlImports
  \/ CreateQtConf
  \/ DeployQtTranslations
  \/ DeployDesktopIntegration
  \/ DeployApplicationResources
  \/ VerifyAndFixRpaths
  \/ DeployAnother
InitDeployReused ==
  /\ InitDeploy /\ hasVdso /\ ~colCore /\ qmlProject /\ ~missingLibrary
  /\ lddGraph[2] = {3, LibcId} /\ stripInstalled /\ invalidInput = "none"
SpecDeployReused == InitDeployReused /\ [][ReuseNext]_vars

\* the run on a machine where an external tool may never return
InitDeployHang == DeployInit /\ ~colEverything /\ PolicyIdle /\ StackIdle /\ GuiInit
SpecDeployHang == InitDeployHang /\ [][DeployNext]_vars /\ WF_pc(RunStep)

\* the graphical front end: the user's clicks and the workers' exits
GuiNext ==
  \/ QtStartDeploy
  \/ QtHandleProcessFinished
  \/ LddStartDeploy
  \/ LddDeploymentFinished
  \/ CloseMessageBox
GuiFrame == UNCHANGED <<polVars, stackVars, machineVars, collectVars, deployVars>>
InitGui ==
  MachineIdle /\ PolicyIdle /\ StackIdle /\ CollectIdle /\ DeployIdle /\ GuiInit
SpecGui == InitGui /\ [][GuiNext /\ GuiFrame]_vars

InitRedeploy == InitDeploy /\ hasVdso /\ ~colCore /\ qmlProject
SpecRedeploy == InitRedeploy /\ [][RedeployNext]_vars

====
